---- MODULE Spec2Model ----
(***************************************************************************)
(* WhoopCoach: the RAG knowledge base / retriever (RAGService), the        *)
(* forecasts (PredictiveAnalytics) and the goal progress calculation       *)
(* (GoalSetting), as state machines.                                       *)
(*                                                                         *)
(* Numbers.  A JavaScript number that comes out of a row is kept in        *)
(* tenths (596 is 59.6), so that one decimal place is exact; results of    *)
(* divisions are kept as exact fractions over a named common denominator.  *)
(* IEEE rounding of the last bit is not modelled; the inputs avoid exact   *)
(* rounding ties of toFixed.                                               *)
(* Arithmetic is exact: the overflow of a double to Infinity (magnitudes   *)
(* near 1.8e308) is not modelled.                                          *)
(* Strings are TLA+ strings, handled character by character.               *)
(***************************************************************************)
EXTENDS Integers, Sequences, FiniteSets, TLC

(***************************************************************************)
(* Bounds of the model                                                     *)
(***************************************************************************)
MaxRows == 3          \* rows of a metric table handed to buildKnowledgeBase
MaxK == 1             \* largest maxResults passed explicitly to retrieve
MaxDays == 10         \* rows of a metric table handed to PredictiveAnalytics
MaxGoals == 2         \* goals of a GoalSetting

(***************************************************************************)
(* JavaScript string primitives                                            *)
(***************************************************************************)
Char(s, i) == SubSeq(s, i, i)

IsSpace(c) == c = " "

\* String.prototype.includes
Includes(a, w) ==
    LET n == Len(a)
        len == Len(w)
    IN \E i \in 1..(n - len + 1) : SubSeq(a, i, i + len - 1) = w

\* Array.prototype.includes
ArrIncludes(arr, x) == \E i \in 1..Len(arr) : arr[i] = x

UpperChars == "ABCDEFGHIJKLMNOPQRSTUVWXYZ"
LowerChars == "abcdefghijklmnopqrstuvwxyz"

UpperSet == {Char(UpperChars, k) : k \in 1..26}
LowerMap == [c \in UpperSet |-> Char(LowerChars, CHOOSE k \in 1..26 : Char(UpperChars, k) = c)]

LowerChar(c) == IF c \in UpperSet THEN LowerMap[c] ELSE c

RECURSIVE LowerOf(_)
LowerOf(s) ==
    IF Len(s) = 0 THEN ""
    ELSE IF Len(s) = 1 THEN LowerChar(s)
    ELSE LowerOf(SubSeq(s, 1, Len(s) \div 2)) \o LowerOf(SubSeq(s, Len(s) \div 2 + 1, Len(s)))

\* String.prototype.toLowerCase
ToLowerCase(s) == IF \E i \in 1..Len(s) : Char(s, i) \in UpperSet THEN LowerOf(s) ELSE s

\* s.split(/\s+/): the maximal runs of non-blank characters in order; a
\* leading or trailing run of blanks (or the empty string) yields an empty token
SplitWS(s) ==
    LET n == Len(s)
        sp(i) == IsSpace(Char(s, i))
        starts == {i \in 1..n : ~sp(i) /\ (i = 1 \/ sp(i - 1))}
        endOf(i) == CHOOSE j \in i..n : (j = n \/ sp(j + 1)) /\ \A h \in i..j : ~sp(h)
        kth(k) == CHOOSE i \in starts : Cardinality({j \in starts : j < i}) = k - 1
        tokens == [k \in 1..Cardinality(starts) |-> SubSeq(s, kth(k), endOf(kth(k)))]
    IN (IF n = 0 \/ sp(1) THEN <<"">> ELSE <<>>) \o tokens \o (IF n > 0 /\ sp(n) THEN <<"">> ELSE <<>>)

\* s.trim() === ''
IsBlank(s) == \A i \in 1..Len(s) : IsSpace(Char(s, i))

RECURSIVE DedupFrom(_, _, _)
DedupFrom(arr, i, acc) ==
    IF i > Len(arr) THEN acc
    ELSE DedupFrom(arr, i + 1, IF ArrIncludes(acc, arr[i]) THEN acc ELSE Append(acc, arr[i]))

\* [...new Set(arr)]
Dedup(arr) == DedupFrom(arr, 1, <<>>)

(***************************************************************************)
(* JavaScript numbers, in tenths                                           *)
(***************************************************************************)
Abs(x) == IF x < 0 THEN -x ELSE x

\* Math.floor(a / b), b > 0
FloorDiv(a, b) == a \div b

\* truncating division and the % operator of JavaScript (sign of the dividend)
TruncDiv(a, b) == IF a >= 0 THEN a \div b ELSE -((-a) \div b)
JsRem(a, b) == a - b * TruncDiv(a, b)

\* Math.round of the fraction a / b, b > 0: floor(a/b + 1/2)
RoundFrac(a, b) == (2 * a + b) \div (2 * b)

\* Number.prototype.toString of t tenths
NumToString(t) ==
    IF t % 10 = 0 THEN ToString(t \div 10)
    ELSE (IF t < 0 THEN "-" ELSE "") \o ToString(Abs(t) \div 10) \o "." \o ToString(Abs(t) % 10)

\* (a / b).toFixed(1), b > 0: the magnitude rounded to one decimal, '-' for a < 0
ToFixed1(a, b) ==
    LET d == RoundFrac(10 * Abs(a), b)
    IN (IF a < 0 THEN "-" ELSE "") \o ToString(d \div 10) \o "." \o ToString(d % 10)

(***************************************************************************)
(* Row values: number | string | null (undefined is treated as null)       *)
(***************************************************************************)
Num(t) == [t |-> "num", n |-> t, s |-> ""]
Str(x) == [t |-> "str", n |-> 0, s |-> x]
Null == [t |-> "null", n |-> 0, s |-> ""]
NaN == [t |-> "nan", n |-> 0, s |-> ""]

Truthy(v) ==
    CASE v.t = "num" -> v.n # 0
      [] v.t = "str" -> v.s # ""
      [] OTHER -> FALSE

\* value.toString()
ValToString(v) == IF v.t = "num" THEN NumToString(v.n) ELSE v.s

Digits == "0123456789"
DigitSet == {Char(Digits, k) : k \in 1..10}
DigitMap == [c \in DigitSet |-> (CHOOSE k \in 1..10 : Char(Digits, k) = c) - 1]
IsDigit(c) == c \in DigitSet
DigitVal(c) == DigitMap[c]

RECURSIVE SkipSpaces(_, _)
SkipSpaces(s, i) == IF i <= Len(s) /\ IsSpace(Char(s, i)) THEN SkipSpaces(s, i + 1) ELSE i

RECURSIVE ParseInt(_, _, _)
\* the digits of s from position i on: <<value, next position>>
ParseInt(s, i, acc) ==
    IF i <= Len(s) /\ IsDigit(Char(s, i))
    THEN ParseInt(s, i + 1, 10 * acc + DigitVal(Char(s, i)))
    ELSE <<acc, i>>

\* parseFloat of a string: the longest numeric prefix, NaN when there is
\* none; the fraction is kept to its first digit
ParseFloatStr(s) ==
    LET i0 == SkipSpaces(s, 1)
        neg == i0 <= Len(s) /\ Char(s, i0) = "-"
        i1 == IF i0 <= Len(s) /\ Char(s, i0) \in {"-", "+"} THEN i0 + 1 ELSE i0
        ip == ParseInt(s, i1, 0)
        hasInt == ip[2] > i1
        hasDot == ip[2] <= Len(s) /\ Char(s, ip[2]) = "."
        hasFrac == hasDot /\ ip[2] + 1 <= Len(s) /\ IsDigit(Char(s, ip[2] + 1))
        frac == IF hasFrac THEN DigitVal(Char(s, ip[2] + 1)) ELSE 0
        mag == 10 * ip[1] + frac
    IN IF ~hasInt /\ ~hasFrac THEN NaN ELSE Num(IF neg THEN -mag ELSE mag)

\* parseFloat(value)
ParseFloat(v) ==
    CASE v.t = "num" -> v
      [] v.t = "str" -> ParseFloatStr(v.s)
      [] OTHER -> NaN

IsNaN(v) == v.t = "nan"

\* parseFloat(value) || 0, in tenths
ParseFloatOr0(v) == IF IsNaN(ParseFloat(v)) THEN 0 ELSE ParseFloat(v).n

(***************************************************************************)
(* Rows: the fields of a row in Object.keys order                          *)
(***************************************************************************)
F(k, v) == [key |-> k, val |-> v]

HasKey(row, k) == \E i \in 1..Len(row) : row[i].key = k

\* row[k]; a missing key reads as undefined
Get(row, k) == IF HasKey(row, k) THEN row[CHOOSE i \in 1..Len(row) : row[i].key = k].val ELSE Null

(***************************************************************************)
(* RAGService.buildKnowledgeBase                                           *)
(***************************************************************************)
DataPoint(c, d, m, v, src, r) ==
    [content |-> c, date |-> d, metric |-> m, value |-> v, source |-> src, recency |-> r]

\* the condition that selects the minute-valued fields
IsDurationKey(keyLower) ==
    \/ Includes(keyLower, "sleep") /\ Includes(keyLower, "duration")
    \/ Includes(keyLower, "asleep duration")
    \/ Includes(keyLower, "awake duration")
    \/ Includes(keyLower, "in bed duration")
    \/ Includes(keyLower, "light sleep")
    \/ Includes(keyLower, "deep")
    \/ Includes(keyLower, "rem")
    \/ Includes(keyLower, "sleep need")
    \/ Includes(keyLower, "sleep debt")

\* `${hours}h ${mins}m` of m tenths of a minute
HoursMins(m) ==
    LET hours == FloorDiv(m, 600)
        mins == RoundFrac(JsRem(m, 600), 10)
    IN ToString(hours) \o "h " \o ToString(mins) \o "m"

FormattedValue(key, value) ==
    IF IsDurationKey(ToLowerCase(key)) /\ ~IsNaN(ParseFloat(value))
    THEN HoursMins(ParseFloat(value).n)
    ELSE ValToString(value)

TimeContext(index) ==
    IF index = 0 THEN "most recently"
    ELSE IF index = 1 THEN "recently"
    ELSE IF index < 7 THEN "in recent days"
    ELSE ""

\* row.date || `day ${index + 1}`
RowDate(row, index) ==
    IF Truthy(Get(row, "date")) THEN ValToString(Get(row, "date"))
    ELSE "day " \o ToString(index + 1)

RowSource(row) ==
    IF Truthy(Get(row, "_source_file")) THEN ValToString(Get(row, "_source_file"))
    ELSE "csv_data"

\* the fields of a row that yield a fact
KeepsField(f) == f.key # "_source_file" /\ Truthy(f.val) /\ ~IsBlank(ValToString(f.val))

RowFact(row, index, f) ==
    LET formattedValue == FormattedValue(f.key, f.val)
        content == IF TimeContext(index) # ""
                   THEN TimeContext(index) \o ", your " \o f.key \o " was " \o formattedValue
                   ELSE "On " \o RowDate(row, index) \o ", your " \o f.key \o " was " \o formattedValue
    IN DataPoint(content, Str(RowDate(row, index)), f.key, formattedValue, RowSource(row), index)

RowFacts(row, index) ==
    LET kept == SelectSeq(row, KeepsField)
    IN [j \in 1..Len(kept) |-> RowFact(row, index, kept[j])]

RECURSIVE CsvFacts(_, _)
\* csvData.forEach((row, index) => ...), from the row at position i on
CsvFacts(csvData, i) ==
    IF i > Len(csvData) THEN <<>>
    ELSE RowFacts(csvData[i], i - 1) \o CsvFacts(csvData, i + 1)

MetricFact(metric) ==
    DataPoint("Your current " \o metric.title \o " is " \o metric.value \o " - " \o metric.subtitle,
              Null, metric.title, metric.value, "current_metrics", -1)

MetricFacts(dynamicMetrics) == [j \in 1..Len(dynamicMetrics) |-> MetricFact(dynamicMetrics[j])]

HasSleepDebt(record) ==
    LET v == Get(record, "sleep debt (min)")
    IN v.t # "null" /\ ~(v.t = "str" /\ v.s = "")

\* csvData.filter(...).slice(0, 7)
SleepDebtEntries(csvData) ==
    LET all == SelectSeq(csvData, HasSleepDebt)
    IN SubSeq(all, 1, IF Len(all) < 7 THEN Len(all) ELSE 7)

DebtMinutes(record) == ParseFloatOr0(Get(record, "sleep debt (min)"))

DebtStatus(debtMinutes) ==
    IF debtMinutes > 600 THEN "significant debt"
    ELSE IF debtMinutes > 300 THEN "moderate debt"
    ELSE IF debtMinutes > -300 THEN "balanced"
    ELSE IF debtMinutes > -600 THEN "slight surplus"
    ELSE "significant surplus"

TimeRef(index) ==
    IF index = 0 THEN "most recent night"
    ELSE ToString(index) \o " " \o (IF index = 1 THEN "day" ELSE "days") \o " ago"

TrackingFact(record, index) ==
    LET debtMinutes == DebtMinutes(record)
    IN DataPoint("Sleep debt " \o TimeRef(index) \o ": "
                    \o (IF debtMinutes >= 0 THEN "+" ELSE "")
                    \o ToFixed1(Abs(debtMinutes), 600) \o " hours (" \o DebtStatus(debtMinutes) \o ")",
                 Get(record, "date"), "Sleep Debt Analysis", NumToString(debtMinutes),
                 "sleep_debt_tracking", index)

RECURSIVE TotalDebt(_, _)
TotalDebt(entries, i) ==
    IF i > Len(entries) THEN 0 ELSE DebtMinutes(entries[i]) + TotalDebt(entries, i + 1)

TrendFact(entries) ==
    LET totalDebt == TotalDebt(entries, 1)
        n == Len(entries)
        \* avgDailyDebt = totalDebt / n, compared with 30 and -30 minutes
        trendStatus == IF totalDebt > 300 * n THEN "accumulating debt"
                       ELSE IF totalDebt > -300 * n THEN "maintaining balance"
                       ELSE "building surplus"
    IN DataPoint("Sleep debt 7-day trend: " \o ToFixed1(totalDebt, 600) \o " hours total, "
                    \o ToFixed1(totalDebt, 600 * n) \o " hours average daily (" \o trendStatus \o ")",
                 Null, "Sleep Debt Trend", NumToString(totalDebt), "sleep_debt_analysis", 0)

SleepDebtFacts(csvData) ==
    LET entries == SleepDebtEntries(csvData)
    IN IF Len(entries) > 0
       THEN [j \in 1..Len(entries) |-> TrackingFact(entries[j], j - 1)] \o <<TrendFact(entries)>>
       ELSE <<>>

\* mutant: the old facts are kept
ResetKnowledgeBase_Keep(old) == old

\* the value this.knowledgeBase is given before the facts are pushed
ResetKnowledgeBase(old) == <<>>

\* the knowledge base after buildKnowledgeBase(csvData, dynamicMetrics)
BuiltKnowledgeBase(old, csvData, dynamicMetrics) ==
    ResetKnowledgeBase(old) \o CsvFacts(csvData, 1) \o MetricFacts(dynamicMetrics)
        \o SleepDebtFacts(csvData)

(***************************************************************************)
(* RAGService.retrieveRelevantData                                         *)
(***************************************************************************)
SleepWords == <<"sleep", "sleeping", "slept", "rest", "bed">>
SleepExpansion == <<"sleep", "asleep", "duration", "efficiency", "performance", "rem", "deep",
                    "light", "awake", "bed">>
DebtWords == <<"debt", "owe", "deficit", "behind", "surplus", "excess">>
DebtExpansion == <<"debt", "deficit", "surplus", "need", "owe", "behind", "excess", "balance">>
RecoveryWords == <<"recovery", "recover", "readiness", "ready">>
RecoveryExpansion == <<"recovery", "score", "hrv", "variability", "resting">>
StrainWords == <<"strain", "workout", "exercise", "activity", "training">>
StrainExpansion == <<"strain", "day", "exertion", "calories", "burned", "energy">>
HeartWords == <<"heart", "hr", "bpm", "pulse">>
HeartExpansion == <<"heart", "rate", "bpm", "resting", "average", "max", "hrv", "variability">>

\* words.some(w => cluster.includes(w))
SomeIn(words, cluster) == \E i \in 1..Len(words) : ArrIncludes(cluster, words[i])

expandQuery(query) ==
    LET words == SplitWS(ToLowerCase(query))
    IN Dedup(words
             \o (IF SomeIn(words, SleepWords) THEN SleepExpansion ELSE <<>>)
             \o (IF SomeIn(words, DebtWords) THEN DebtExpansion ELSE <<>>)
             \o (IF SomeIn(words, RecoveryWords) THEN RecoveryExpansion ELSE <<>>)
             \o (IF SomeIn(words, StrainWords) THEN StrainExpansion ELSE <<>>)
             \o (IF SomeIn(words, HeartWords) THEN HeartExpansion ELSE <<>>))

temporalReferences == <<"last night", "yesterday", "today", "most recent", "latest", "current", "now">>

IsTemporalQuery(queryLower) ==
    \E i \in 1..Len(temporalReferences) : Includes(queryLower, temporalReferences[i])

\* the score one expanded query word adds to a fact
WordScore(content, metric, contentWords, metricWords, word) ==
    (IF Includes(content, word) THEN 2 ELSE 0)
    + (IF Includes(metric, word) THEN 3 ELSE 0)
    + (IF ArrIncludes(contentWords, word) THEN 1 ELSE 0)
    + (IF ArrIncludes(metricWords, word) THEN 2 ELSE 0)

RECURSIVE SumSeq(_, _)
SumSeq(f, i) == IF i > Len(f) THEN 0 ELSE f[i] + SumSeq(f, i + 1)

\* expandedQuery.forEach(word => ...): the score the query words add to a fact
KeywordScore(content, metric, expandedQuery) ==
    LET contentWords == SplitWS(content)
        metricWords == SplitWS(metric)
        perWord == [i \in 1..Len(expandedQuery) |->
                      WordScore(content, metric, contentWords, metricWords, expandedQuery[i])]
    IN SumSeq(perWord, 1)

\* the boost of the sleep-debt facts for a query that contains 'sleep debt'
SleepDebtBoost(queryLower, source) ==
    IF ~Includes(queryLower, "sleep debt") THEN 0
    ELSE IF source = "sleep_debt_tracking" THEN 50
    ELSE IF source = "sleep_debt_analysis" THEN 45
    ELSE 0

\* the boost of current and recent facts
RecencyBoost(source, recency) ==
    (IF source = "current_metrics" THEN 5 ELSE 0) + (IF recency < 3 THEN 3 ELSE 0)

TemporalBoost(isTemporalQuery, recency) ==
    IF ~isTemporalQuery THEN 0
    ELSE IF recency = 0 THEN 20
    ELSE IF recency = 1 THEN 10
    ELSE IF recency = 2 THEN 5
    ELSE 0

Score(dataPoint, queryLower, expandedQuery, isTemporalQuery) ==
    LET content == ToLowerCase(dataPoint.content)
        metric == ToLowerCase(dataPoint.metric)
    IN KeywordScore(content, metric, expandedQuery)
       + SleepDebtBoost(queryLower, dataPoint.source)
       + RecencyBoost(dataPoint.source, dataPoint.recency)
       + TemporalBoost(isTemporalQuery, dataPoint.recency)

\* this.knowledgeBase.map(dataPoint => ({ dataPoint, score }))
ScoredData(kb, query) ==
    LET queryLower == ToLowerCase(query)
        expandedQuery == expandQuery(queryLower)
        isTemporalQuery == IsTemporalQuery(queryLower)
    IN [i \in 1..Len(kb) |->
          [dataPoint |-> kb[i], score |-> Score(kb[i], queryLower, expandedQuery, isTemporalQuery)]]

\* .filter(item => item.score > 0)
KeepsScore(item) == item.score > 0

RECURSIVE InsertByScore(_, _)
\* item put behind every element whose score is not lower
InsertByScore(sorted, item) ==
    IF sorted = <<>> THEN <<item>>
    ELSE IF Head(sorted).score >= item.score
         THEN <<Head(sorted)>> \o InsertByScore(Tail(sorted), item)
         ELSE <<item>> \o sorted

RECURSIVE SortFrom(_, _, _)
SortFrom(items, i, acc) ==
    IF i > Len(items) THEN acc ELSE SortFrom(items, i + 1, InsertByScore(acc, items[i]))

\* mutant: the items are left in knowledge-base order
SortByScore_Unsorted(items) == items

\* .sort((a, b) => b.score - a.score): stable, descending
SortByScore(items) == SortFrom(items, 1, <<>>)

\* .slice(0, maxResults), maxResults >= 0
Slice0(items, maxResults) == SubSeq(items, 1, IF Len(items) < maxResults THEN Len(items) ELSE maxResults)

\* the facts with a positive score, best first
RankedData(kb, query) == SortByScore(SelectSeq(ScoredData(kb, query), KeepsScore))

\* .slice(0, maxResults).map(item => item.dataPoint)
TopDataPoints(ranked, maxResults) ==
    LET sel == Slice0(ranked, maxResults)
    IN [i \in 1..Len(sel) |-> sel[i].dataPoint]

\* the value retrieveRelevantData(query, maxResults) returns
RetrieveRelevantData(kb, query, maxResults) == TopDataPoints(RankedData(kb, query), maxResults)

DefaultMaxResults == 10

(***************************************************************************)
(* RAGService.generateEnhancedRAGContext                                   *)
(***************************************************************************)
\* analyzeMetricValue(metric, value), value in tenths
analyzeMetricValue(metric, value) ==
    LET metricLower == ToLowerCase(metric)
    IN IF Includes(metricLower, "recovery")
       THEN (IF value >= 670 THEN "Green (High Recovery - ready for higher strain)"
             ELSE IF value >= 340 THEN "Yellow (Moderate Recovery - moderate activity recommended)"
             ELSE "Red (Low Recovery - prioritize rest)")
       ELSE IF Includes(metricLower, "sleep performance")
       THEN (IF value >= 800 THEN "Good (meeting sleep needs)"
             ELSE "Below optimal (sleep optimization recommended)")
       ELSE IF Includes(metricLower, "strain")
       THEN (IF value >= 180 THEN "All-out exertion (18-21)"
             ELSE IF value >= 140 THEN "High exertion (14-17)"
             ELSE IF value >= 100 THEN "Moderate exertion (10-13)"
             ELSE "Light exertion (0-9)")
       ELSE IF Includes(metricLower, "efficiency")
       THEN (IF value >= 850 THEN "Optimal sleep efficiency"
             ELSE "Room for sleep efficiency improvement")
       ELSE IF Includes(metricLower, "oxygen")
       THEN (IF value >= 950 THEN "Normal blood oxygen levels"
             ELSE "Below optimal blood oxygen (may indicate sleep/breathing issues)")
       ELSE NumToString(value)

\* the line of one fact in the summary
PointLine(metric, point) ==
    LET value == ParseFloatStr(point.value)
        interpretation == IF ~IsNaN(value) THEN analyzeMetricValue(metric, value.n) ELSE point.value
    IN "- " \o point.content \o " [" \o interpretation \o "] (Source: " \o point.source \o ")\n"

RECURSIVE MetricsOf(_, _, _)
\* Object.keys(dataByMetric): the metrics in order of first occurrence
MetricsOf(points, i, acc) ==
    IF i > Len(points) THEN acc
    ELSE MetricsOf(points, i + 1,
                   IF ArrIncludes(acc, points[i].metric) THEN acc ELSE Append(acc, points[i].metric))

RECURSIVE MetricLines(_, _, _)
MetricLines(metric, points, i) ==
    IF i > Len(points) THEN ""
    ELSE (IF points[i].metric = metric THEN PointLine(metric, points[i]) ELSE "")
         \o MetricLines(metric, points, i + 1)

RECURSIVE MetricBlocks(_, _, _)
MetricBlocks(metrics, points, i) ==
    IF i > Len(metrics) THEN ""
    ELSE "**" \o metrics[i] \o ":**\n" \o MetricLines(metrics[i], points, 1) \o "\n"
         \o MetricBlocks(metrics, points, i + 1)

IsWhite(c) == c = " " \/ c = "\n"

RECURSIVE TrimEnd(_)
TrimEnd(s) == IF Len(s) > 0 /\ IsWhite(Char(s, Len(s))) THEN TrimEnd(SubSeq(s, 1, Len(s) - 1)) ELSE s

SummaryHeader ==
    "Your personal Whoop health data with metric interpretation (most recent data points listed first):\n\n"

ContextMaxResults == 8

\* the summary generateEnhancedRAGContext renders for the retrieved facts
EnhancedSummary(points) == TrimEnd(SummaryHeader \o MetricBlocks(MetricsOf(points, 1, <<>>), points, 1))

(***************************************************************************)
(* GoalSetting: the progress of a goal                                     *)
(*                                                                         *)
(* currentValue and targetValue are in tenths.  progress is the exact      *)
(* fraction n / d (d > 0), or NaN; a stored goal holds null for NaN.       *)
(***************************************************************************)
Ratio(n, d) == [t |-> "num", n |-> n, d |-> d]
Infinity(sign) == [t |-> "inf", n |-> sign, d |-> 0]

\* (num / den) * 100 for finite num and den
QuotTimes100(num, den) ==
    IF den = 0
    THEN (IF num = 0 THEN NaN ELSE Infinity(IF num > 0 THEN 1 ELSE -1))
    ELSE Ratio(100 * num * (IF den < 0 THEN -1 ELSE 1), Abs(den))

\* Math.max(0, Math.min(100, x))
Clamp0To100(x) ==
    CASE x.t = "nan" -> NaN
      [] x.t = "inf" -> (IF x.n > 0 THEN Ratio(100, 1) ELSE Ratio(0, 1))
      [] OTHER -> (IF x.n > 100 * x.d THEN Ratio(100, 1)
                   ELSE IF x.n < 0 THEN Ratio(0, 1)
                   ELSE x)

GoalTypes == {"recovery", "sleep", "strain", "hrv", "custom"}

\* getCurrentValue(type), in tenths
getCurrentValue(data, type) ==
    IF Len(data) = 0 THEN 0
    ELSE LET latest == data[1]
         IN CASE type = "recovery" -> ParseFloatOr0(Get(latest, "recovery score %"))
              [] type = "sleep" -> ParseFloatOr0(Get(latest, "sleep performance %"))
              [] type = "strain" -> ParseFloatOr0(Get(latest, "day strain"))
              [] type = "hrv" -> ParseFloatOr0(Get(latest, "heart rate variability (ms)"))
              [] OTHER -> 0

\* getBaselineValue(type), in tenths
getBaselineValue(type) ==
    CASE type = "recovery" -> 300
      [] type = "sleep" -> 600
      [] type = "strain" -> 200
      [] type = "hrv" -> 200
      [] OTHER -> 0

\* the progress updateGoalProgress computes
ProgressValue(type, targetValue, currentValue) ==
    IF type = "strain"
    THEN Clamp0To100(QuotTimes100(targetValue - currentValue,
                                  targetValue - getBaselineValue(type)))
    ELSE Clamp0To100(QuotTimes100(currentValue, targetValue))

\* the trend updateGoalProgress computes
GoalTrend(type, currentValue, previousValue) ==
    IF Abs(currentValue - previousValue) < 10 THEN "stable"
    ELSE IF (IF type = "strain" THEN currentValue < previousValue
                                ELSE currentValue > previousValue)
         THEN "improving"
         ELSE "declining"

\* updateGoalProgress(goal): the goal after the call
updateGoalProgress(data, goal) ==
    LET currentValue == getCurrentValue(data, goal.type)
        previousValue == goal.currentValue
    IN [goal EXCEPT !.currentValue = currentValue,
                    !.progress = ProgressValue(goal.type, goal.targetValue, currentValue),
                    !.trend = GoalTrend(goal.type, currentValue, previousValue)]

\* the goal createGoal builds before it calls updateGoalProgress
\* (id, title, description, unit, timeframe, dates and recommendations do
\* not enter the progress and are left out)
NewGoal(data, type, targetValue) ==
    [type |-> type, targetValue |-> targetValue,
     currentValue |-> getCurrentValue(data, type),
     isActive |-> TRUE, progress |-> Ratio(0, 1), trend |-> "stable"]

\* JSON.parse(JSON.stringify(goals)): NaN is written as null
JsonGoal(goal) == IF IsNaN(goal.progress) THEN [goal EXCEPT !.progress = Null] ELSE goal
JsonGoals(goals) == [i \in 1..Len(goals) |-> JsonGoal(goals[i])]

\* updateAllGoals: every active goal updated
UpdatedGoals(data, goals) ==
    [i \in 1..Len(goals) |->
        IF goals[i].isActive THEN updateGoalProgress(data, goals[i]) ELSE goals[i]]

(***************************************************************************)
(* Goals component: averages and trend of a metric                         *)
(*                                                                         *)
(* An average is kept as the pair <<sum, count>> of the values in tenths,  *)
(* <<0, 1>> for the 0 of an empty selection.                               *)
(***************************************************************************)
\* s.slice(from, to), 0 <= from <= to
StrSlice(s, from, to) == SubSeq(s, from + 1, IF Len(s) < to THEN Len(s) ELSE to)

RECURSIVE PositiveValues(_, _, _)
\* .map(row => parseFloat(row[metricKey]) || 0).filter(val => val > 0), from row i on
PositiveValues(rows, metricKey, i) ==
    IF i > Len(rows) THEN <<>>
    ELSE LET val == ParseFloatOr0(Get(rows[i], metricKey))
         IN (IF val > 0 THEN <<val>> ELSE <<>>) \o PositiveValues(rows, metricKey, i + 1)

AverageOf(values) == IF Len(values) > 0 THEN <<SumSeq(values, 1), Len(values)>> ELSE <<0, 1>>

\* Goals.calculateAverage(metricKey, dayRange)
GoalsCalculateAverage(data, metricKey, dayRange) ==
    IF Len(data) = 0 THEN <<0, 1>>
    ELSE AverageOf(PositiveValues(Slice0(data, dayRange), metricKey, 1))

\* the key calculateTrend reads the older average from: metricKey.slice(7, 14) || metricKey
OlderKey(metricKey) ==
    IF StrSlice(metricKey, 7, 14) # "" THEN StrSlice(metricKey, 7, 14) ELSE metricKey

\* Math.abs(recent - older) < 2 for two averages
DiffersLessThan2(recent, older) ==
    Abs(recent[1] * older[2] - older[1] * recent[2]) < 20 * recent[2] * older[2]

AvgLess(a, b) == a[1] * b[2] < b[1] * a[2]

isHigherBetter(metricKey) ==
    /\ ~Includes(ToLowerCase(metricKey), "strain")
    /\ ~Includes(ToLowerCase(metricKey), "resting heart rate")

TrendOf(metricKey, recent, older) ==
    IF DiffersLessThan2(recent, older) THEN "stable"
    ELSE IF isHigherBetter(metricKey)
         THEN (IF AvgLess(older, recent) THEN "improving" ELSE "declining")
         ELSE (IF AvgLess(recent, older) THEN "improving" ELSE "declining")

\* Goals.calculateTrend(metricKey)
GoalsCalculateTrend(data, metricKey) ==
    IF Len(data) < 7 THEN "stable"
    ELSE TrendOf(metricKey, GoalsCalculateAverage(data, metricKey, 7),
                 GoalsCalculateAverage(data, OlderKey(metricKey), 7))

(***************************************************************************)
(* PredictiveAnalytics: helpers                                            *)
(*                                                                         *)
(* A series is a sequence of values in tenths.  A confidence c is kept as  *)
(* the integer c * ConfidenceDen.                                          *)
(***************************************************************************)
\* getMetricData(metricName): the values that parse, in row order from row i on
RECURSIVE MetricDataFrom(_, _, _)
MetricDataFrom(data, metricName, i) ==
    IF i > Len(data) THEN <<>>
    ELSE LET val == ParseFloat(Get(data[i], metricName))
         IN (IF IsNaN(val) THEN <<>> ELSE <<val.n>>) \o MetricDataFrom(data, metricName, i + 1)

getMetricData(data, metricName) == MetricDataFrom(data, metricName, 1)

\* data.slice(0, k).reduce((a, b) => a + b, 0)
SumFirst_All(series, k) == SumSeq(series, 1)
SumFirst(series, k) == SumSeq(Slice0(series, k), 1)

Min2(a, b) == IF a < b THEN a ELSE b
Max2(a, b) == IF a > b THEN a ELSE b

\* Math.max(lo, Math.min(hi, x))
ClampTo_None(lo, hi, x) == x
ClampTo(lo, hi, x) == Max2(lo, Min2(hi, x))

\* sum over the 0-based positions i of data of weight(i) * value(i)
RECURSIVE SumXY(_, _)
SumXY(series, i) == IF i > Len(series) THEN 0 ELSE (i - 1) * series[i] + SumXY(series, i + 1)

\* calculateTrend(data): the slope as <<numerator, denominator>>, in tenths per
\* position; <<0, 1>> when data has fewer than 3 values
calculateTrend(series) ==
    IF Len(series) < 3 THEN <<0, 1>>
    ELSE LET n == Len(series)
             sumX == SumSeq([i \in 1..n |-> i - 1], 1)
             sumY == SumSeq(series, 1)
             sumXY == SumXY(series, 1)
             sumXX == SumSeq([i \in 1..n |-> (i - 1) * (i - 1)], 1)
         IN <<n * sumXY - sumX * sumY, n * sumXX - sumX * sumX>>

\* calculateVariance(data) / mean(data) > 0.3 for a non-empty series: with
\* n values of sum s and sum of squares q (tenths), the variance is
\* (n q - s s) / (100 n n) and the mean s / (10 n); a zero mean gives
\* Infinity (above 0.3) or NaN (not above), a negative mean a negative ratio
HighVariance(series) ==
    LET n == Len(series)
        s == SumSeq(series, 1)
        q == SumSeq([i \in 1..n |-> series[i] * series[i]], 1)
        dev == n * q - s * s
    IN IF s > 0 THEN dev > 3 * n * s
       ELSE IF s = 0 THEN dev > 0
       ELSE FALSE

ConfidenceDen == 1312500

\* confidence *= 0.8 for every series with more than 3 values whose 7 most
\* recent values vary highly
RECURSIVE ReduceConfidence(_, _, _)
ReduceConfidence(datasets, i, confidence) ==
    IF i > Len(datasets) THEN confidence
    ELSE ReduceConfidence(datasets, i + 1,
             IF Len(datasets[i]) > 3 /\ HighVariance(Slice0(datasets[i], 7))
             THEN (confidence * 4) \div 5
             ELSE confidence)

\* calculateConfidence without its 0.5 floor
calculateConfidence_NoFloor(datasets) ==
    LET totalDataPoints == SumSeq([i \in 1..Len(datasets) |-> Len(datasets[i])], 1)
        avgOver14 == (totalDataPoints * ConfidenceDen) \div (14 * Len(datasets))
        base == Min2((9 * ConfidenceDen) \div 10, avgOver14)
    IN Min2((95 * ConfidenceDen) \div 100, ReduceConfidence(datasets, 1, base))

\* calculateConfidence(...datasets), times ConfidenceDen
calculateConfidence(datasets) ==
    LET totalDataPoints == SumSeq([i \in 1..Len(datasets) |-> Len(datasets[i])], 1)
        \* avgDataPoints / 14, times ConfidenceDen
        avgOver14 == (totalDataPoints * ConfidenceDen) \div (14 * Len(datasets))
        base == Min2((9 * ConfidenceDen) \div 10, avgOver14)
        reduced == ReduceConfidence(datasets, 1, base)
    IN Max2(ConfidenceDen \div 2, Min2((95 * ConfidenceDen) \div 100, reduced))

(***************************************************************************)
(* PredictiveAnalytics: the four forecasts                                 *)
(***************************************************************************)
PredictionResult(type, prediction, confidence, timeframe, reasoning, recommendations) ==
    [type |-> type, prediction |-> prediction, confidence |-> confidence,
     timeframe |-> timeframe, reasoning |-> reasoning, recommendations |-> recommendations]

\* the slope of a trend is above (below) a / b
TrendAbove(trend, a, b) == trend[1] * b > 10 * a * trend[2]
TrendBelow(trend, a, b) == trend[1] * b < 10 * a * trend[2]

InsufficientRecovery_Five(recoveryData) == Len(recoveryData) < 5
InsufficientRecovery(recoveryData) == Len(recoveryData) < 7

\* predictRecoveryScore(); the averages are kept in 2100ths of a point
RecoveryScoreFrom(recoveryData, strainData, sleepData) ==
    LET point == 2100
        recentRecovery == 70 * SumFirst(recoveryData, 3)
        weeklyAvg == 30 * SumFirst(recoveryData, 7)
        \* twice the mean of the 2 most recent values, in tenths
        recentStrain == IF Len(strainData) > 0 THEN SumFirst(strainData, 2) ELSE 200
        recentSleep == IF Len(sleepData) > 0 THEN SumFirst(sleepData, 2) ELSE 1600
        strainAdjust == IF recentStrain > 300 THEN -10
                        ELSE IF recentStrain > 240 THEN -5
                        ELSE IF recentStrain < 160 THEN 3
                        ELSE 0
        sleepAdjust == IF recentSleep < 1400 THEN -8
                       ELSE IF recentSleep > 1700 THEN 5
                       ELSE 0
        trendMomentum == ((recentRecovery - weeklyAvg) * 3) \div 10
        predicted == ClampTo(10 * point, 100 * point,
                             weeklyAvg + (strainAdjust + sleepAdjust) * point + trendMomentum)
        recommendations ==
            IF predicted < 50 * point
            THEN <<"Consider a rest day or light activity",
                   "Prioritize quality sleep tonight",
                   "Focus on hydration and nutrition">>
            ELSE IF predicted > 80 * point
            THEN <<"Good day for higher intensity training",
                   "Your body is ready for challenge",
                   "Maintain current recovery practices">>
            ELSE <<"Moderate training intensity recommended",
                   "Monitor how you feel during activity",
                   "Focus on recovery practices">>
    IN IF InsufficientRecovery(recoveryData)
       THEN PredictionResult("recovery", 0, 0, "tomorrow", "Insufficient data", <<>>)
       ELSE PredictionResult("recovery", RoundFrac(predicted, point),
                calculateConfidence(<<recoveryData, strainData, sleepData>>), "tomorrow",
                "Based on your recent recovery trend (" \o ToFixed1(recentRecovery, point)
                    \o "%), strain patterns (" \o ToFixed1(recentStrain, 20)
                    \o "), and sleep quality (" \o ToFixed1(recentSleep, 20) \o "%)",
                recommendations)

\* predictRecoveryScore(): the series are read once, then the forecast is computed
predictRecoveryScore(data) ==
    CHOOSE p \in {RecoveryScoreFrom(recoveryData, strainData, sleepData) :
                   recoveryData \in {getMetricData(data, "recovery score %")},
                   strainData \in {getMetricData(data, "day strain")},
                   sleepData \in {getMetricData(data, "sleep performance %")}} : TRUE

\* '+' for a value >= 0
PlusSign(x) == IF x >= 0 THEN "+" ELSE ""

\* predictSleepDebt(); minutes are kept in tenths, the projection in 30ths
\* (the recommendation texts are given without their emoji)
SleepDebtFrom(sleepNeedData, sleepDurationData, sleepDebtData) ==
    LET currentDebt == IF Len(sleepDebtData) > 0 THEN sleepDebtData[1] ELSE 0
        maxDays == Min2(7, Min2(Len(sleepNeedData), Len(sleepDurationData)))
        weeklyDeficits == [i \in 1..maxDays |-> sleepNeedData[i] - sleepDurationData[i]]
        actualCurrentDebt == IF currentDebt = 0 /\ Len(weeklyDeficits) > 0
                             THEN SumSeq(weeklyDeficits, 1)
                             ELSE currentDebt
        \* three times the mean deficit of the 3 most recent days
        recentDeficit == SumFirst(weeklyDeficits, 3)
        projectedDebtInWeek == 3 * actualCurrentDebt + 7 * recentDeficit
        recommendations ==
            IF Abs(actualCurrentDebt) < 300
            THEN <<"Excellent sleep balance!",
                   "You're meeting your sleep needs consistently",
                   "Maintain your current sleep schedule",
                   "Continue prioritizing sleep quality">>
            ELSE IF actualCurrentDebt > 1200
            THEN <<"Significant sleep debt accumulated",
                   "Prioritize earlier bedtime this week",
                   "Consider catching up with longer weekend sleep",
                   "Focus on sleep quality optimization">>
            ELSE IF actualCurrentDebt > 600
            THEN <<"Moderate sleep debt building up",
                   "Aim for 30-60 minutes earlier bedtime",
                   "Maintain consistent sleep schedule",
                   "Monitor sleep efficiency">>
            ELSE IF actualCurrentDebt < -600
            THEN <<"Great sleep surplus!",
                   "You're banking extra recovery time",
                   "Maintain current excellent habits",
                   "Consider how this affects your energy levels">>
            ELSE <<"Minor sleep debt - manageable",
                   "Small adjustments to bedtime can help",
                   "Focus on sleep consistency",
                   "Monitor for quality over quantity">>
    IN IF Len(sleepNeedData) < 5 \/ Len(sleepDurationData) < 5
       THEN PredictionResult("sleep_debt", 0, 0, "current", "Insufficient sleep data", <<>>)
       ELSE PredictionResult("sleep_debt", RoundFrac(projectedDebtInWeek, 30),
                calculateConfidence(<<sleepNeedData, sleepDurationData>>),
                "current & 1 week projection",
                "Current debt: " \o PlusSign(actualCurrentDebt) \o ToFixed1(actualCurrentDebt, 600)
                    \o "h. Recent avg deficit: " \o ToFixed1(recentDeficit, 1800)
                    \o "h/day. Projected: " \o PlusSign(projectedDebtInWeek)
                    \o ToFixed1(projectedDebtInWeek, 1800) \o "h",
                recommendations)

\* predictSleepDebt(): the series are read once, then the forecast is computed
predictSleepDebt(data) ==
    CHOOSE p \in {SleepDebtFrom(sleepNeedData, sleepDurationData, sleepDebtData) :
                   sleepNeedData \in {getMetricData(data, "sleep need (min)")},
                   sleepDurationData \in {getMetricData(data, "asleep duration (min)")},
                   sleepDebtData \in {getMetricData(data, "sleep debt (min)")}} : TRUE

\* predictPerformanceReadiness(); the averages are kept in 50ths of a point
PerformanceReadinessFrom(recoveryData, hrvData, strainData) ==
    LET point == 50
        avgRecovery == SumFirst(recoveryData, 5)
        hrvTrend == IF Len(hrvData) >= 5 THEN calculateTrend(Slice0(hrvData, 5)) ELSE <<0, 1>>
        \* three times the mean of the 3 most recent values, in tenths
        recentStrain == SumFirst(strainData, 3)
        hrvAdjust == IF TrendAbove(hrvTrend, 1, 10) THEN 5
                     ELSE IF TrendBelow(hrvTrend, -1, 10) THEN -5
                     ELSE 0
        strainAdjust == IF recentStrain > 480 THEN -10
                        ELSE IF recentStrain < 270 THEN 5
                        ELSE 0
        readiness == ClampTo(0, 100 * point, avgRecovery + (hrvAdjust + strainAdjust) * point)
        recommendations ==
            IF readiness > 80 * point
            THEN <<"Excellent performance window",
                   "Consider peak intensity training",
                   "Your body is primed for performance">>
            ELSE IF readiness > 60 * point
            THEN <<"Good for moderate-high intensity",
                   "Listen to your body during training",
                   "Maintain current recovery practices">>
            ELSE <<"Focus on active recovery",
                   "Avoid high intensity training",
                   "Prioritize sleep and nutrition">>
    IN IF Len(recoveryData) < 5
       THEN PredictionResult("performance", 0, 0, "next 3 days",
                             "Insufficient performance data", <<>>)
       ELSE PredictionResult("performance", RoundFrac(readiness, point),
                calculateConfidence(<<recoveryData, hrvData, strainData>>), "next 3 days",
                "Recovery trend: " \o ToFixed1(avgRecovery, point) \o "%, HRV trend: "
                    \o (IF TrendAbove(hrvTrend, 0, 1) THEN "improving" ELSE "stable")
                    \o ", Recent strain: " \o ToFixed1(recentStrain, 30),
                recommendations)

\* predictPerformanceReadiness(): the series are read once, then the forecast is computed
predictPerformanceReadiness(data) ==
    CHOOSE p \in {PerformanceReadinessFrom(recoveryData, hrvData, strainData) :
                   recoveryData \in {getMetricData(data, "recovery score %")},
                   hrvData \in {getMetricData(data, "heart rate variability (ms)")},
                   strainData \in {getMetricData(data, "day strain")}} : TRUE

\* the scan of assessInjuryRisk over days i .. days (1-based):
\* <<consecutiveRiskDays, riskScore>>
RECURSIVE RiskScan(_, _, _, _, _, _)
RiskScan(recoveryData, strainData, i, days, consecutiveRiskDays, riskScore) ==
    IF i > days THEN <<consecutiveRiskDays, riskScore>>
    ELSE IF strainData[i] > 140 /\ recoveryData[i] < 500
         THEN RiskScan(recoveryData, strainData, i + 1, days,
                       consecutiveRiskDays + 1, riskScore + 15)
         ELSE RiskScan(recoveryData, strainData, i + 1, days, 0, riskScore)

\* assessInjuryRisk()
InjuryRiskFrom(recoveryData, strainData, hrvData) ==
    LET scan == RiskScan(recoveryData, strainData, 1,
                         Min2(7, Min2(Len(recoveryData), Len(strainData))), 0, 0)
        consecutiveRiskDays == scan[1]
        hrvTrend == IF Len(hrvData) >= 7 THEN calculateTrend(Slice0(hrvData, 7)) ELSE <<0, 1>>
        \* recentStrainAvg > weeklyStrainAvg * 1.3, both sides times 210
        strainSpike == 70 * SumFirst(strainData, 3) > 39 * SumFirst(strainData, 7)
        riskScore == Min2(100, scan[2]
                               + (IF consecutiveRiskDays >= 3 THEN 25 ELSE 0)
                               + (IF TrendBelow(hrvTrend, -15, 100) THEN 20 ELSE 0)
                               + (IF strainSpike THEN 15 ELSE 0))
        recommendations ==
            IF riskScore > 70
            THEN <<"HIGH INJURY RISK - Consider rest days",
                   "Focus heavily on recovery protocols",
                   "Avoid high-intensity training",
                   "Consider consulting a healthcare provider">>
            ELSE IF riskScore > 40
            THEN <<"Moderate injury risk detected",
                   "Increase recovery focus",
                   "Reduce training intensity temporarily",
                   "Monitor for pain or unusual fatigue">>
            ELSE <<"Low injury risk",
                   "Current training load appears sustainable",
                   "Continue monitoring strain-recovery balance">>
    IN IF Len(recoveryData) < 7 \/ Len(strainData) < 7
       THEN PredictionResult("injury_risk", 0, 0, "next 2 weeks",
                             "Insufficient data for injury risk assessment", <<>>)
       ELSE PredictionResult("injury_risk", riskScore,
                calculateConfidence(<<recoveryData, strainData, hrvData>>), "next 2 weeks",
                ToString(consecutiveRiskDays) \o " consecutive high-risk days, HRV trend: "
                    \o (IF TrendBelow(hrvTrend, 0, 1) THEN "declining" ELSE "stable")
                    \o ", strain pattern analysis",
                recommendations)

\* assessInjuryRisk(): the series are read once, then the forecast is computed
assessInjuryRisk(data) ==
    CHOOSE p \in {InjuryRiskFrom(recoveryData, strainData, hrvData) :
                   recoveryData \in {getMetricData(data, "recovery score %")},
                   strainData \in {getMetricData(data, "day strain")},
                   hrvData \in {getMetricData(data, "heart rate variability (ms)")}} : TRUE

\* the four forecasts in the order generatePredictions pushes them
AllPredictions(data) ==
    <<predictRecoveryScore(data), predictSleepDebt(data),
      predictPerformanceReadiness(data), assessInjuryRisk(data)>>

\* p.confidence > 0.5
KeepsPrediction_Half(p) == 10 * p.confidence > 5 * ConfidenceDen

\* p.confidence > 0.6
KeepsPrediction_All(p) == TRUE
KeepsPrediction(p) == 10 * p.confidence > 6 * ConfidenceDen

\* generatePredictions()
generatePredictions(data) == SelectSeq(AllPredictions(data), KeepsPrediction)

\* the rows a PredictiveAnalytics keeps: data.slice(0, 30)
HistoryRows(data) == Slice0(data, 30)

(***************************************************************************)
(* Inputs of the RAG service: metric tables, snapshots, queries            *)
(***************************************************************************)
\* the date label of the row at a 0-based index, most recent first
DateOf(index) == "2024-03-" \o ToString(28 - index)

\* 'sleep debt (min)' of the rows of a Whoop export, in tenths of a minute:
\* a surplus, a fractional debt, a large debt, then balanced nights
DebtOf(index) ==
    IF index = 0 THEN Num(-900)
    ELSE IF index = 1 THEN Num(596)
    ELSE IF index = 2 THEN Num(1500)
    ELSE Num(0)

\* a row of a Whoop export as parseCSV returns it
WhoopRow(index) ==
    <<F("date", Str(DateOf(index))),
      F("recovery score %", Num(10 * (55 + index))),
      F("sleep debt (min)", DebtOf(index))>>

\* a row of a sleep log without a date column; every second night has no debt entry
SleepLogRow(index) ==
    <<F("asleep duration (min)", Num(4255 - 100 * index)),
      F("sleep debt (min)", IF index % 2 = 1 THEN Null ELSE Num(450 - 400 * index)),
      F("_source_file", Str("sleep.csv"))>>

\* a row of a file whose column header is a list of sleep terms
NotesRow(index) ==
    <<F("sleep debt need deficit surplus balance rem deep light", Str("see notes")),
      F("sleep debt (min)", Num(1200))>>

\* a row of an export with rest days: a day strain of 0
RestDayRow(index) ==
    <<F("date", Str(DateOf(index))),
      F("day strain", Num(0)),
      F("recovery score %", Num(10 * (70 + index)))>>

RowKinds == {"whoop", "sleeplog", "notes", "restday"}

MkRow(kind, index) ==
    CASE kind = "whoop" -> WhoopRow(index)
      [] kind = "sleeplog" -> SleepLogRow(index)
      [] kind = "restday" -> RestDayRow(index)
      [] OTHER -> NotesRow(index)

Table(kind, n) == [i \in 1..n |-> MkRow(kind, i - 1)]

Tables == {Table(kind, n) : kind \in RowKinds, n \in 0..MaxRows}

MetricSets ==
    {<<>>,
     <<[title |-> "Sleep Debt", value |-> "45", subtitle |-> "From your latest night"]>>}

Queries == {"sleep debt", "latest recovery", "How rested am I", "hydration"}

MaxResultsArgs == (0..MaxK) \cup {DefaultMaxResults}

(***************************************************************************)
(* Inputs of PredictiveAnalytics: metric tables, most recent row first     *)
(***************************************************************************)
\* the metric profiles of a table: <<recovery, strain, sleep performance,
\* heart rate variability, sleep need / duration / debt>>
Scenarios ==
    {<<"steady", "easy", "good", "none", "none">>,
     <<"steady", "none", "none", "none", "none">>,
     <<"steady", "hard", "good", "rising", "short">>,
     <<"steady", "spike", "none", "rising", "balanced">>,
     <<"swing", "spike", "none", "falling", "tracked">>,
     <<"swing", "hard", "good", "rising", "balanced">>,
     <<"low", "hard", "none", "falling", "short">>,
     <<"low", "easy", "good", "none", "tracked">>,
     <<"low", "spike", "good", "none", "none">>,
     <<"gaps", "easy", "good", "rising", "short">>,
     <<"gaps", "none", "none", "none", "balanced">>,
     <<"high", "none", "none", "none", "none">>,
     <<"high", "easy", "good", "rising", "tracked">>,
     <<"high", "spike", "good", "falling", "none">>,
     <<"steady", "moderate", "fair", "none", "none">>,
     <<"half", "moderate", "fair", "none", "none">>,
     <<"half", "brisk", "fine", "rising", "none">>,
     <<"dip", "hard", "none", "none", "none">>,
     <<"hole", "spike", "none", "none", "broken">>}

\* the fields of the row at a 0-based index under a profile of each metric
RecoveryField(p, index) ==
    CASE p = "steady" -> <<F("recovery score %", Num(600))>>
      [] p = "swing" -> <<F("recovery score %", Num(IF index % 2 = 0 THEN 950 ELSE 250))>>
      [] p = "low" -> <<F("recovery score %", Num(400))>>
      [] p = "gaps" -> <<F("recovery score %", IF index % 2 = 0 THEN Num(600) ELSE Str(""))>>
      [] p = "half" -> <<F("recovery score %", Num(605))>>
      [] p = "dip" -> <<F("recovery score %", Num(IF index < 3 THEN 400 ELSE 700))>>
      [] p = "hole" -> <<F("recovery score %", IF index = 1 THEN Str("") ELSE Num(400))>>
      [] OTHER -> <<F("recovery score %", Str("100"))>>

StrainField(p, index) ==
    CASE p = "none" -> <<>>
      [] p = "easy" -> <<F("day strain", Num(70))>>
      [] p = "hard" -> <<F("day strain", Num(165))>>
      [] p = "moderate" -> <<F("day strain", Num(100))>>
      [] p = "brisk" -> <<F("day strain", Num(120))>>
      [] OTHER -> <<F("day strain", Num(IF index < 3 THEN 180 ELSE 60))>>

SleepField(p, index) ==
    CASE p = "none" -> <<>>
      [] p = "fair" -> <<F("sleep performance %", Num(800))>>
      [] p = "fine" -> <<F("sleep performance %", Num(850))>>
      [] OTHER -> <<F("sleep performance %", Num(900))>>

\* the heart rate variability rose (fell) from the oldest row to the newest
HrvField(p, index) ==
    CASE p = "none" -> <<>>
      [] p = "rising" -> <<F("heart rate variability (ms)", Num(800 - 30 * index))>>
      [] OTHER -> <<F("heart rate variability (ms)", Num(500 + 30 * index))>>

NightFields(p, index) ==
    CASE p = "none" -> <<>>
      [] p = "short" -> <<F("sleep need (min)", Num(4800)), F("asleep duration (min)", Num(4200))>>
      [] p = "broken" -> <<F("sleep need (min)", Num(4800 + 100 * index)),
                           F("asleep duration (min)", IF index = 1 THEN Str("") ELSE Num(4200))>>
      [] p = "tracked" -> <<F("sleep need (min)", Num(4800)), F("asleep duration (min)", Num(4500)),
                            F("sleep debt (min)", Num(900))>>
      [] OTHER -> <<F("sleep need (min)", Num(4800)), F("asleep duration (min)", Num(4500)),
                    F("sleep debt (min)", Num(0))>>

MetricRow(rec, str, slp, hrv, night, index) ==
    RecoveryField(rec, index) \o StrainField(str, index) \o SleepField(slp, index)
        \o HrvField(hrv, index) \o NightFields(night, index)

MetricTables ==
    {[i \in 1..n |-> MetricRow(s[1], s[2], s[3], s[4], s[5], i - 1)] :
        n \in 0..MaxDays, s \in Scenarios}

(***************************************************************************)
(* Inputs of GoalSetting: the rows and the arguments of createGoal         *)
(***************************************************************************)
GoalTables ==
    {<<>>} \cup {<<<<F("recovery score %", Num(rec)), F("day strain", Num(str))>>>> :
                    rec \in {0, 450, 900}, str \in {100, 150, 200}}

CreatedTypes == {"recovery", "strain", "custom"}

\* target values, in tenths
TargetValues == {0, 100, 200, 900}

(***************************************************************************)
(* RAGService: response generation (generateRAGResponse and                *)
(* generateRAGResponseStream).  Emoji are left out of the literal replies. *)
(***************************************************************************)
RECURSIVE TrimStart(_)
TrimStart(s) == IF Len(s) > 0 /\ IsWhite(Char(s, 1)) THEN TrimStart(SubSeq(s, 2, Len(s))) ELSE s

\* s.trim()
Trim(s) == TrimEnd(TrimStart(s))

NoKeyReply == "Please set your OpenAI API key in the .env file!"

NoDataReply ==
    "I couldn't find relevant data in your CSV to answer that question. Could you try rephrasing or asking about metrics that are in your data?"

TroubleReply ==
    "I'm having trouble connecting right now. Please make sure you've entered a valid OpenAI API key."

casualGreetings ==
    <<"hey coach", "hello coach", "hi coach", "hey there", "hello there", "hi there", "sup", "yo",
      "what's up", "good morning", "good afternoon", "good evening">>

exactGreetings == <<"hey", "hello", "hi">>

gratitudeExpressions ==
    <<"thank you", "thanks", "thank you coach", "thanks coach", "appreciate it", "much appreciated">>

acknowledgments ==
    <<"ok", "okay", "got it", "understood", "sounds good", "cool", "nice", "awesome", "great", "perfect">>

farewells ==
    <<"bye", "goodbye", "see you", "talk later", "catch you later", "bye coach", "goodbye coach">>

healthKeywords ==
    <<"sleep", "recovery", "strain", "heart", "hrv", "performance", "health", "data", "metrics", "score",
      "last night", "today", "yesterday", "week", "month", "how am i", "how is my", "what about my",
      "tell me about", "analyze", "show me">>

containsHealthKeywords(queryLower) ==
    \E i \in 1..Len(healthKeywords) : Includes(queryLower, healthKeywords[i])

isCasualConversation(queryLower) ==
    /\ \/ ArrIncludes(exactGreetings, queryLower)
       \/ ArrIncludes(casualGreetings, queryLower)
       \/ ArrIncludes(gratitudeExpressions, queryLower)
       \/ ArrIncludes(acknowledgments, queryLower)
       \/ ArrIncludes(farewells, queryLower)
    /\ ~containsHealthKeywords(queryLower)

\* the canned replies of a casual query; Math.random picks one of them
CasualResponses(queryLower) ==
    IF ArrIncludes(gratitudeExpressions, queryLower) THEN
        {"You're very welcome! Our mission at WHOOP is to unlock human performance and Healthspan. Keep optimizing!",
         "My pleasure! Remember, our mission at WHOOP is to unlock human performance and Healthspan. Stay healthy!",
         "Glad I could help! Our mission at WHOOP is to unlock human performance and Healthspan - and you're living it!",
         "You're welcome! Keep working toward unlocking your human performance and Healthspan. That's what we're here for!"}
    ELSE IF ArrIncludes(acknowledgments, queryLower) THEN
        {"Great! Anything else you'd like to explore about your health data?",
         "Perfect! Let me know if you have more questions about your metrics.",
         "Awesome! I'm here if you need more insights.",
         "Sounds good! Feel free to ask about any other health topics.",
         "Cool! What else would you like to know about your Whoop data?"}
    ELSE IF ArrIncludes(farewells, queryLower) THEN
        {"Take care! Our mission at WHOOP is to unlock human performance and Healthspan - keep living it!",
         "See you later! Remember, we're here to help unlock your human performance and Healthspan!",
         "Goodbye! Keep unlocking your human performance and Healthspan with every choice you make!",
         "Talk soon! Our mission at WHOOP is to unlock human performance and Healthspan - and you're crushing it!"}
    ELSE
        {"Hey there! What would you like to know about your health data today?",
         "Hello! I'm here to help analyze your Whoop metrics. What's on your mind?",
         "Hi! Ready to dive into your health insights? Ask me anything about your data!",
         "Hey! What health questions can I help you with today?",
         "Hello! I'm here to help you understand your metrics. What would you like to explore?"}

NoRelevantData_Never(relevant) == FALSE

\* ragContext.relevantData.length === 0
NoRelevantData(relevant) == Len(relevant) = 0

\* one onChunk(chunk, isComplete) call
Chunk(chunk, isComplete) == [chunk |-> chunk, isComplete |-> isComplete]

(***************************************************************************)
(* Inputs of response generation                                           *)
(***************************************************************************)
\* constructor arguments: no key, a blank key, a key
ApiKeys == {"", " ", "sk-test"}

(***************************************************************************)
(* Inputs of the Goals component: metric tables, most recent row first     *)
(***************************************************************************)
\* the days a table of the Goals component covers
MaxTrendDays == 14

TrendProfiles == {"flat", "falling", "rising", "drifting"}

\* the value of a metric on the day of a row, in tenths: the metric fell, rose or drifted
\* between the older week (rows 7..13) and the recent week (rows 0..6)
TrendValue(profile, index) ==
    CASE profile = "falling" -> IF index < 7 THEN 400 ELSE 800
      [] profile = "rising" -> IF index < 7 THEN 800 ELSE 400
      [] profile = "drifting" -> IF index < 7 THEN 600 ELSE 610
      [] OTHER -> 600

TrendRow(profile, index) ==
    <<F("recovery score %", Num(TrendValue(profile, index))),
      F("day strain", Num(TrendValue(profile, index) \div 5)),
      F("hrv", Num(TrendValue(profile, index)))>>

TrendTables ==
    {[i \in 1..n |-> TrendRow(profile, i - 1)] : n \in 0..MaxTrendDays, profile \in TrendProfiles}

TrendKeys == {"recovery score %", "day strain", "hrv"}

(***************************************************************************)
(* Inputs of the interleaved calls on the three services                   *)
(***************************************************************************)
ConcTables == {Table("whoop", 2)}

ConcQueries == {"sleep debt", "latest recovery"}

ConcMetricTables ==
    {[i \in 1..7 |-> MetricRow("steady", "moderate", "fair", "none", "none", i - 1)]}

ConcGoalTables ==
    {<<<<F("recovery score %", Num(rec)), F("day strain", Num(150))>>>> : rec \in {450, 900}}

\* the tables a generation runs over: an empty upload and a Whoop export of MaxRows rows
GenTables == {Table("whoop", n) : n \in {0, MaxRows}}

GenQueries == {"sleep debt", "hydration", " Thanks ", "OK", "bye", "Hello"}

\* what the completion service answers: message contents, stream deltas
Contents == {"Your recovery is solid."}

Deltas == {"", "Your "}

\* the deltas one stream delivers before it ends
MaxChunks == 2

(***************************************************************************)
(* State                                                                   *)
(***************************************************************************)
VARIABLES
    csvData,          \* the rows last handed to buildKnowledgeBase
    dynamicMetrics,   \* the snapshots last handed to buildKnowledgeBase
    knowledgeBase,    \* RAGService.knowledgeBase
    ragCall,          \* the last call on the service: "none", "build", "rebuild" (a build
                      \* over a non-empty knowledge base), "retrieve", "context"
    lastQuery,        \* its query ("" for a build)
    lastMaxResults,   \* its maxResults (0 for a build)
    scoredData,       \* its scored facts after filter and sort (none for a build)
    relevantData,     \* the facts it returned (none for a build)
    summary           \* the summary it returned ("" unless generateEnhancedRAGContext)

ragVars == <<csvData, dynamicMetrics, knowledgeBase, ragCall, lastQuery, lastMaxResults,
             scoredData, relevantData, summary>>

VARIABLES
    history,          \* PredictiveAnalytics.data
    predictions,      \* the four forecasts of the last generatePredictions, in push order
    returned,         \* the list the last generatePredictions returned
    predCall          \* the last call: "none", "new", "generate"

predVars == <<history, predictions, returned, predCall>>

VARIABLES
    goalData,         \* GoalSetting.data
    goals,            \* GoalSetting.goals
    storedGoals,      \* localStorage 'whoopai_goals', parsed: the array, or the goals of the object
    storedKind,       \* what the stored value is: "none", "array" or "object"
    goalsKind,        \* what this.goals is: "array" or "object"
    goalCall          \* the last call: "none", "new", "create", "updateAll"

goalVars == <<goalData, goals, storedGoals, storedKind, goalsKind, goalCall>>

VARIABLES
    apiKey,           \* RAGService.apiKey
    genCall,          \* the last generation call: "none", "response", "stream"
    genQuery,         \* its query
    genPhase,         \* where it stands: "idle", "requested" (the fetch is in flight),
                      \* "reading" (the stream is open), "done", "failed" (the promise rejected)
    reply,            \* what generateRAGResponse returned ("" until it returns)
    chunks,           \* the onChunk calls of generateRAGResponseStream, in order
    requests          \* the requests the call sent to the completion service

genVars == <<apiKey, genCall, genQuery, genPhase, reply, chunks, requests>>

VARIABLES
    trendData,        \* the data prop of the Goals component
    trendKey,         \* the metric key of the last calculateTrend ("" before the first)
    trend             \* what it returned ("" before the first)

trendVars == <<trendData, trendKey, trend>>

VARIABLES
    ttsPhase,      \* position of the createAudioFromText call: "idle", "requesting", "backoff", "reading", "returned", "thrown"
    ttsText,       \* the text of the request body
    attempts,      \* the local attempts of the retry loop
    ttsOutcomes,   \* the outcome of each request sent by the call, in order
    ttsPending,    \* whether a request is in flight
    ttsDelays,     \* the delays waited by the call, in ms, in order
    ttsError       \* the message of the error thrown by the call, "" if none

ttsVars == <<ttsPhase, ttsText, attempts, ttsOutcomes, ttsPending, ttsDelays, ttsError>>

VARIABLES
    sendPhase,       \* handleSendMessage: "idle", "pending" (awaiting the stream), "settled"
    isLoading,
    aborted,         \* abortControllerRef.current exists and its signal is aborted
    messageContent,  \* the content of the coach message of the last request
    completeText,    \* the text accumulated by the onChunk callback
    deltaCount,      \* the content chunks the callback has received for the last request
    speechOn,        \* isSpeechEnabled as captured by the handler of the last request
    spokenText,      \* spokenTextRef.current
    resetTimer,      \* the setTimeout of handleAutoSpeech is waiting
    directSpeech,    \* the text handed to speakText by the last request, "" if none
    speechCalls,     \* the createAudioFromText calls of queueTextForSpeech since the last
                     \* request began, in call order
    audioQueue,      \* audioQueueRef.current: positions in speechCalls
    isPlaying,       \* isPlayingRef.current
    audioCurrent,    \* audioRef.current: the position of its call among those of its request, 0 if null
    played,          \* the play() calls since the last request began: positions in speechCalls
    stopMark         \* Len(speechCalls) when the pending request was stopped, -1 if it was not

chatVars == <<sendPhase, isLoading, aborted, messageContent, completeText, deltaCount,
              speechOn>>

speechVars == <<spokenText, resetTimer, directSpeech, speechCalls, audioQueue, isPlaying,
                audioCurrent, played, stopMark>>

coachVars == <<ttsVars, chatVars, speechVars>>

vars == <<ragVars, predVars, goalVars, genVars, trendVars, coachVars>>

RagInit ==
    /\ csvData = <<>>
    /\ dynamicMetrics = <<>>
    /\ knowledgeBase = <<>>
    /\ ragCall = "none"
    /\ lastQuery = ""
    /\ lastMaxResults = 0
    /\ scoredData = <<>>
    /\ relevantData = <<>>
    /\ summary = ""

\* buildKnowledgeBase(rows, metrics)
BuildKnowledgeBase(rows, metrics) ==
    /\ csvData' = rows
    /\ dynamicMetrics' = metrics
    /\ knowledgeBase' = BuiltKnowledgeBase(knowledgeBase, rows, metrics)
    /\ ragCall' = IF knowledgeBase = <<>> THEN "build" ELSE "rebuild"
    /\ lastQuery' = ""
    /\ lastMaxResults' = 0
    /\ scoredData' = <<>>
    /\ relevantData' = <<>>
    /\ summary' = ""
    /\ UNCHANGED <<predVars, goalVars, genVars, trendVars, coachVars>>

Rank_Forget(q) ==
    /\ lastQuery' = q
    /\ scoredData' = RankedData(knowledgeBase, q)
    /\ knowledgeBase' = <<>>
    /\ UNCHANGED <<csvData, dynamicMetrics, predVars, goalVars>>

\* the scoring, filtering and sorting of retrieveRelevantData(q, ...)
Rank(q) ==
    /\ lastQuery' = q
    /\ scoredData' = RankedData(knowledgeBase, q)
    /\ UNCHANGED <<csvData, dynamicMetrics, knowledgeBase, predVars, goalVars>>

\* retrieveRelevantData(q, k), for some maxResults k
Retrieve(q) ==
    /\ Rank(q)
    /\ \E k \in MaxResultsArgs :
          /\ lastMaxResults' = k
          /\ relevantData' = TopDataPoints(scoredData', k)
    /\ ragCall' = "retrieve"
    /\ summary' = ""
    /\ UNCHANGED <<genVars, trendVars, coachVars>>

\* what generateEnhancedRAGContext(q) computes and returns
EnhancedRAGContext(q) ==
    /\ Rank(q)
    /\ lastMaxResults' = ContextMaxResults
    /\ relevantData' = TopDataPoints(scoredData', ContextMaxResults)
    /\ summary' = EnhancedSummary(relevantData')
    /\ ragCall' = "context"

\* generateEnhancedRAGContext(q), called on its own
GenerateEnhancedRAGContext(q) ==
    /\ EnhancedRAGContext(q)
    /\ UNCHANGED <<genVars, trendVars, coachVars>>

DoBuild == \E rows \in Tables, metrics \in MetricSets : BuildKnowledgeBase(rows, metrics)
DoRetrieve == \E q \in Queries : Retrieve(q)
DoContext == \E q \in Queries : GenerateEnhancedRAGContext(q)

RagNext == DoBuild \/ DoRetrieve \/ DoContext

PredInit ==
    /\ history = <<>>
    /\ predictions = <<>>
    /\ returned = <<>>
    /\ predCall = "none"

\* new PredictiveAnalytics(data): the constructor, the only writer of this.data
NewPredictiveAnalytics(data) ==
    /\ predCall = "none"
    /\ history' = HistoryRows(data)
    /\ predictions' = <<>>
    /\ returned' = <<>>
    /\ predCall' = "new"
    /\ UNCHANGED <<ragVars, goalVars, genVars, trendVars, coachVars>>

\* generatePredictions()
GeneratePredictions ==
    /\ predCall # "none"
    /\ predictions' = AllPredictions(history)
    /\ returned' = generatePredictions(history)
    /\ predCall' = "generate"
    /\ UNCHANGED <<history, ragVars, goalVars, genVars, trendVars, coachVars>>

DoNewPredictiveAnalytics == \E data \in MetricTables : NewPredictiveAnalytics(data)

PredNext == DoNewPredictiveAnalytics \/ GeneratePredictions

GoalInit ==
    /\ goalData = <<>>
    /\ goals = <<>>
    /\ storedGoals = <<>>
    /\ storedKind = "none"
    /\ goalsKind = "array"
    /\ goalCall = "none"

\* new GoalSetting(data): the goals are loaded from storage
NewGoalSetting(data) ==
    /\ goalData' = data
    /\ goals' = storedGoals
    /\ goalsKind' = IF storedKind = "object" THEN "object" ELSE "array"
    /\ goalCall' = "new"
    /\ UNCHANGED <<storedGoals, storedKind, ragVars, predVars, genVars, trendVars, coachVars>>

\* this.goals is not an array: push, forEach and filter are not functions, and the
\* method throws a TypeError before it changes anything
NotAnArray ==
    /\ goalCall' = "threw"
    /\ UNCHANGED <<goals, storedGoals, storedKind>>

\* createGoal(type, ..., targetValue, ...)
CreateGoal(type, targetValue) ==
    /\ goalCall # "none"
    /\ IF goalsKind = "array"
       THEN /\ Len(goals) < MaxGoals
            /\ goals' = Append(goals, updateGoalProgress(goalData, NewGoal(goalData, type, targetValue)))
            /\ storedGoals' = JsonGoals(goals')
            /\ storedKind' = "array"
            /\ goalCall' = "create"
       ELSE NotAnArray
    /\ UNCHANGED <<goalData, goalsKind, ragVars, predVars, genVars, trendVars, coachVars>>

\* updateAllGoals()
UpdateAllGoals ==
    /\ goalCall # "none"
    /\ IF goalsKind = "array"
       THEN /\ goals' = UpdatedGoals(goalData, goals)
            /\ storedGoals' = IF \E i \in 1..Len(goals) : goals[i].isActive
                              THEN JsonGoals(goals')
                              ELSE storedGoals
            /\ storedKind' = IF \E i \in 1..Len(goals) : goals[i].isActive
                             THEN "array"
                             ELSE storedKind
            /\ goalCall' = "updateAll"
       ELSE NotAnArray
    /\ UNCHANGED <<goalData, goalsKind, ragVars, predVars, genVars, trendVars, coachVars>>

DoNewGoalSetting == \E data \in GoalTables : NewGoalSetting(data)
DoCreateGoal == \E type \in CreatedTypes, targetValue \in TargetValues : CreateGoal(type, targetValue)

GoalNext == DoNewGoalSetting \/ DoCreateGoal \/ UpdateAllGoals

GenInit ==
    /\ apiKey = ""
    /\ genCall = "none"
    /\ genQuery = ""
    /\ genPhase = "idle"
    /\ reply = ""
    /\ chunks = <<>>
    /\ requests = 0

\* no generation call is waiting for the completion service
GenIdle == genPhase \in {"idle", "done", "failed"}

\* new RAGService(key)
NewRAGService(key) ==
    /\ GenIdle
    /\ apiKey' = key
    /\ csvData' = <<>>
    /\ dynamicMetrics' = <<>>
    /\ knowledgeBase' = <<>>
    /\ ragCall' = "none"
    /\ lastQuery' = ""
    /\ lastMaxResults' = 0
    /\ scoredData' = <<>>
    /\ relevantData' = <<>>
    /\ summary' = ""
    /\ genCall' = "none"
    /\ genQuery' = ""
    /\ genPhase' = "idle"
    /\ reply' = ""
    /\ chunks' = <<>>
    /\ requests' = 0
    /\ UNCHANGED <<predVars, goalVars, trendVars, coachVars>>

\* buildKnowledgeBase between two generation calls
GenBuild(rows, metrics) ==
    /\ GenIdle
    /\ BuildKnowledgeBase(rows, metrics)

\* a generation method hands out a reply of its own: generateRAGResponse returns it,
\* generateRAGResponseStream passes it to onChunk as the completing chunk
Answered(text, stream) ==
    IF stream
    THEN chunks' = <<Chunk(text, TRUE)>> /\ reply' = ""
    ELSE reply' = text /\ chunks' = <<>>

\* the common course of the two generation methods up to the fetch
GenerationPrelude(query, stream) ==
    IF Trim(apiKey) = "" THEN
        /\ Answered(NoKeyReply, stream)
        /\ requests' = 0
        /\ genPhase' = "done"
        /\ UNCHANGED <<ragVars, predVars, goalVars>>
    ELSE IF isCasualConversation(Trim(ToLowerCase(query))) THEN
        /\ \E response \in CasualResponses(Trim(ToLowerCase(query))) : Answered(response, stream)
        /\ requests' = 0
        /\ genPhase' = "done"
        /\ UNCHANGED <<ragVars, predVars, goalVars>>
    ELSE
        /\ EnhancedRAGContext(query)
        /\ IF NoRelevantData(relevantData')
           THEN /\ Answered(NoDataReply, stream)
                /\ requests' = 0
                /\ genPhase' = "done"
           ELSE /\ reply' = "" /\ chunks' = <<>>
                /\ requests' = 1
                /\ genPhase' = "requested"

\* generateRAGResponse(query), up to its return or its fetch
GenerateRAGResponse(query) ==
    /\ GenIdle
    /\ genCall' = "response"
    /\ genQuery' = query
    /\ GenerationPrelude(query, FALSE)
    /\ UNCHANGED <<apiKey, trendVars, coachVars>>

\* generateRAGResponseStream(query, onChunk), up to its return or its fetch
GenerateRAGResponseStream(query) ==
    /\ GenIdle
    /\ genCall' = "stream"
    /\ genQuery' = query
    /\ GenerationPrelude(query, TRUE)
    /\ UNCHANGED <<apiKey, trendVars, coachVars>>

\* generateRAGResponse: the service answers and the method returns the message content
ResponseOk(content) ==
    /\ genCall = "response" /\ genPhase = "requested"
    /\ reply' = content
    /\ genPhase' = "done"
    /\ UNCHANGED <<apiKey, genCall, genQuery, chunks, requests, ragVars, predVars, goalVars, trendVars, coachVars>>

\* generateRAGResponse: the fetch rejects or the answer is not ok, and the error is rethrown
ResponseFails ==
    /\ genCall = "response" /\ genPhase = "requested"
    /\ genPhase' = "failed"
    /\ UNCHANGED <<apiKey, genCall, genQuery, reply, chunks, requests, ragVars, predVars, goalVars, trendVars, coachVars>>

\* generateRAGResponseStream: the answer is ok and has a body to read
StreamOpens ==
    /\ genCall = "stream" /\ genPhase = "requested"
    /\ genPhase' = "reading"
    /\ UNCHANGED <<apiKey, genCall, genQuery, reply, chunks, requests, ragVars, predVars, goalVars, trendVars, coachVars>>

\* generateRAGResponseStream: a data line with a delta; an empty delta is not handed on
StreamDelta(content) ==
    /\ genCall = "stream" /\ genPhase = "reading"
    /\ Len(chunks) < MaxChunks
    /\ chunks' = IF content # "" THEN Append(chunks, Chunk(content, FALSE)) ELSE chunks
    /\ UNCHANGED <<apiKey, genCall, genQuery, genPhase, reply, requests, ragVars, predVars, goalVars, trendVars, coachVars>>

\* StreamEnds without its onChunk('', true)
StreamEnds_Silent ==
    /\ genCall = "stream" /\ genPhase = "reading"
    /\ genPhase' = "done"
    /\ UNCHANGED <<apiKey, genCall, genQuery, reply, chunks, requests, ragVars, predVars, goalVars, trendVars, coachVars>>

\* generateRAGResponseStream: the reader is done, or the line "data: [DONE]" arrives
StreamEnds ==
    /\ genCall = "stream" /\ genPhase = "reading"
    /\ chunks' = Append(chunks, Chunk("", TRUE))
    /\ genPhase' = "done"
    /\ UNCHANGED <<apiKey, genCall, genQuery, reply, requests, ragVars, predVars, goalVars, trendVars, coachVars>>

\* generateRAGResponseStream: the fetch or a read rejects, the answer is not ok or has no body
StreamFails ==
    /\ genCall = "stream" /\ genPhase \in {"requested", "reading"}
    /\ chunks' = Append(chunks, Chunk(TroubleReply, TRUE))
    /\ genPhase' = "done"
    /\ UNCHANGED <<apiKey, genCall, genQuery, reply, requests, ragVars, predVars, goalVars, trendVars, coachVars>>

DoNewRAGService == \E key \in ApiKeys : NewRAGService(key)
DoGenBuild == \E rows \in GenTables, metrics \in MetricSets : GenBuild(rows, metrics)
DoGenerateRAGResponse == \E query \in GenQueries : GenerateRAGResponse(query)
DoGenerateRAGResponseStream == \E query \in GenQueries : GenerateRAGResponseStream(query)
DoResponseOk == \E content \in Contents : ResponseOk(content)
DoStreamDelta == \E content \in Deltas : StreamDelta(content)

GenNext ==
    \/ DoNewRAGService
    \/ DoGenBuild
    \/ DoGenerateRAGResponse
    \/ DoGenerateRAGResponseStream
    \/ DoResponseOk
    \/ ResponseFails
    \/ StreamOpens
    \/ DoStreamDelta
    \/ StreamEnds
    \/ StreamFails

TrendInit ==
    /\ trendData = <<>>
    /\ trendKey = ""
    /\ trend = ""

\* the Goals component is rendered with a data prop
RenderGoals(data) ==
    /\ trendData' = data
    /\ trendKey' = ""
    /\ trend' = ""
    /\ UNCHANGED <<ragVars, predVars, goalVars, genVars, coachVars>>

\* calculateTrend(metricKey)
CalculateTrend(metricKey) ==
    /\ trendKey' = metricKey
    /\ trend' = GoalsCalculateTrend(trendData, metricKey)
    /\ UNCHANGED <<trendData, ragVars, predVars, goalVars, genVars, coachVars>>

DoRenderGoals == \E data \in TrendTables : RenderGoals(data)
DoCalculateTrend == \E metricKey \in TrendKeys : CalculateTrend(metricKey)

TrendNext == DoRenderGoals \/ DoCalculateTrend

\* calls on the three services, interleaved
ConcBuild == \E rows \in ConcTables : BuildKnowledgeBase(rows, <<>>)
ConcRetrieve == \E q \in ConcQueries : Retrieve(q)
ConcNewPredictiveAnalytics == \E data \in ConcMetricTables : NewPredictiveAnalytics(data)
ConcNewGoalSetting == \E data \in ConcGoalTables : NewGoalSetting(data)
\* createGoal, for the first goal of the service
ConcCreateGoal == goals = <<>> /\ \E type \in {"recovery", "strain"} : CreateGoal(type, 900)

ConcNext ==
    \/ ConcBuild
    \/ ConcRetrieve
    \/ ConcNewPredictiveAnalytics
    \/ GeneratePredictions
    \/ ConcNewGoalSetting
    \/ ConcCreateGoal
    \/ UpdateAllGoals

(***************************************************************************)
(* AICoach.createAudioFromText: one text-to-speech call                    *)
(***************************************************************************)

maxAttempts == 3

TtsMaxChars == 300

MinAudioBytes == 1000

\* the length of the longest text given to the call
MaxTtsText == 301

RECURSIVE Repeat(_, _)
\* the character c, n times
Repeat(c, n) ==
    IF n = 0 THEN ""
    ELSE IF n = 1 THEN c
    ELSE Repeat(c, n \div 2) \o Repeat(c, n - (n \div 2))

LongText == Repeat("a", MaxTtsText)

\* the ElevenLabs keys of the environment: none, blank, set
TtsKeys == {"", " ", "el-key"}

TtsTexts == {"", "a", " Well done. ", "Sleep more.\n", LongText}

\* the outcomes of one request: an HTTP status, or "network" for a rejected fetch
TtsOutcomes == {"200", "401", "422", "500", "429", "network"}

AudioSizes == {0, 999, 1000, 20000}

RECURSIVE RemoveControl(_)
\* .replace(/[\u0000-\u001F\u007F-\u009F]/g, '')
RemoveControl(s) ==
    IF Len(s) = 0 THEN ""
    ELSE IF Len(s) = 1 THEN (IF s = "\n" THEN "" ELSE s)
    ELSE RemoveControl(SubSeq(s, 1, Len(s) \div 2)) \o RemoveControl(SubSeq(s, (Len(s) \div 2) + 1, Len(s)))

\* text.substring(0, 300) + '.' for a text longer than 300
TruncateForTts(text) == IF Len(text) > TtsMaxChars THEN SubSeq(text, 1, TtsMaxChars) \o "." ELSE text

\* Math.pow(2, attempts) * 1000
BackoffDelay(n) == (2 ^ n) * 1000

\* the error a request's outcome throws inside the try block
ErrorOf(outcome) ==
    CASE outcome = "401" -> "Invalid ElevenLabs API key"
      [] outcome = "422" -> "Invalid voice ID or request parameters"
      [] outcome = "network" -> "Failed to fetch"
      [] OTHER -> "ElevenLabs TTS error: " \o outcome

TtsInit ==
    /\ ttsPhase = "idle"
    /\ ttsText = ""
    /\ attempts = 0
    /\ ttsOutcomes = <<>>
    /\ ttsPending = FALSE
    /\ ttsDelays = <<>>
    /\ ttsError = ""

OtherThanTts == <<ragVars, predVars, goalVars, genVars, trendVars, chatVars, speechVars>>

\* createAudioFromText(text) up to its first fetch
CreateAudioFromText(key, text) ==
    /\ ttsPhase \in {"idle", "returned", "thrown"}
    /\ attempts' = 0
    /\ ttsOutcomes' = <<>>
    /\ ttsDelays' = <<>>
    /\ IF key = "" \/ Trim(key) = ""
       THEN /\ ttsPhase' = "thrown"
            /\ ttsError' = "ElevenLabs API key not configured"
            /\ ttsText' = text
            /\ ttsPending' = FALSE
       ELSE IF Len(TruncateForTts(text)) < 2
       THEN /\ ttsPhase' = "thrown"
            /\ ttsError' = "Text too short for TTS"
            /\ ttsText' = text
            /\ ttsPending' = FALSE
       ELSE /\ ttsPhase' = "requesting"
            /\ ttsError' = ""
            /\ ttsText' = Trim(RemoveControl(TruncateForTts(text)))
            /\ ttsPending' = TRUE
    /\ UNCHANGED OtherThanTts

\* a failure inside the try block, at the catch: rethrown on the last attempt, else a backoff
CaughtError(outcome) ==
    /\ ttsOutcomes' = Append(ttsOutcomes, outcome)
    /\ ttsPending' = FALSE
    /\ IF attempts = maxAttempts - 1
       THEN /\ ttsPhase' = "thrown"
            /\ ttsError' = ErrorOf(outcome)
            /\ ttsDelays' = ttsDelays
       ELSE /\ ttsPhase' = "backoff"
            /\ ttsError' = ""
            /\ ttsDelays' = Append(ttsDelays, BackoffDelay(attempts))
    /\ UNCHANGED <<ttsText, attempts>>

\* the fetch resolves with a response
TtsResponse(status) ==
    /\ ttsPhase = "requesting"
    /\ IF status = "200"
       THEN /\ ttsOutcomes' = Append(ttsOutcomes, status)
            /\ ttsPending' = FALSE
            /\ ttsPhase' = "reading"
            /\ UNCHANGED <<ttsText, attempts, ttsDelays, ttsError>>
       ELSE CaughtError(status)
    /\ UNCHANGED OtherThanTts

\* the fetch rejects
TtsNetworkError ==
    /\ ttsPhase = "requesting"
    /\ CaughtError("network")
    /\ UNCHANGED OtherThanTts

\* the backoff timer fires: attempts++ and the next fetch
TtsBackoffElapsed ==
    /\ ttsPhase = "backoff"
    /\ attempts' = attempts + 1
    /\ ttsPhase' = "requesting"
    /\ ttsPending' = TRUE
    /\ UNCHANGED <<ttsText, ttsOutcomes, ttsDelays, ttsError>>
    /\ UNCHANGED OtherThanTts

\* response.arrayBuffer() resolves
TtsBody(byteLength) ==
    /\ ttsPhase = "reading"
    /\ IF byteLength < MinAudioBytes
       THEN /\ ttsPhase' = "thrown"
            /\ ttsError' = "Audio response too small, likely an error"
       ELSE /\ ttsPhase' = "returned"
            /\ ttsError' = ""
    /\ UNCHANGED <<ttsText, attempts, ttsOutcomes, ttsPending, ttsDelays>>
    /\ UNCHANGED OtherThanTts

DoCreateAudioFromText == \E key \in TtsKeys, text \in TtsTexts : CreateAudioFromText(key, text)
DoTtsResponse == \E status \in TtsOutcomes \ {"network"} : TtsResponse(status)
DoTtsBody == \E byteLength \in AudioSizes : TtsBody(byteLength)

TtsNext ==
    \/ DoCreateAudioFromText
    \/ DoTtsResponse
    \/ TtsNetworkError
    \/ TtsBackoffElapsed
    \/ DoTtsBody

(***************************************************************************)
(* AICoach: a streamed request, its stop, and the speech queue             *)
(***************************************************************************)

\* the content chunks of one streamed response
MaxDeltas == 2

StoppedReply == "Response generation was stopped."

NoCsvReply ==
    "Please ensure your CSV data is loaded before asking questions. I can only analyze real health data from your CSV file."

\* the delta contents of a streamed response
CoachDeltas == {"Rest well today. ", "Sleep  more!", " Nice. "}

\* the replies generateRAGResponseStream gives without a request
DirectReplies == {NoKeyReply, NoDataReply}

IsPunct(c) == c \in {".", "!", "?"}

RECURSIVE FirstPunct(_, _)
\* the position of the first '.', '!' or '?' of s from position i on, with no line break
\* before it: the end of group 1 of /^(.*?[.!?])\s*/, 0 if there is no match
FirstPunct(s, i) ==
    IF i > Len(s) \/ Char(s, i) = "\n" THEN 0
    ELSE IF IsPunct(Char(s, i)) THEN i
    ELSE FirstPunct(s, i + 1)

RECURSIVE WhiteRun(_, _)
\* the end of the run of white space that starts after position i: the \s* of the match
WhiteRun(s, i) == IF i < Len(s) /\ IsWhite(Char(s, i + 1)) THEN WhiteRun(s, i + 1) ELSE i

RECURSIVE CollapseWhite(_, _, _)
\* .replace(/\s+/g, ' ') on the characters lo..hi of s: a run of white space leaves one blank
CollapseWhite(s, lo, hi) ==
    IF lo > hi THEN ""
    ELSE IF lo = hi
         THEN (IF ~IsWhite(Char(s, lo)) THEN Char(s, lo)
               ELSE IF lo > 1 /\ IsWhite(Char(s, lo - 1)) THEN "" ELSE " ")
         ELSE CollapseWhite(s, lo, (lo + hi) \div 2) \o CollapseWhite(s, ((lo + hi) \div 2) + 1, hi)

\* sanitizeTextForTTS on a text of letters, '.', '!', '?' and white space, none of them the
\* words h, min, bpm, ms, cal: the rewriting of numbers, signs, units, markdown and emoji
\* leaves such a text as it is, and the white space is collapsed and trimmed
sanitizeTextForTTS(text) == Trim(CollapseWhite(text, 1, Len(text)))

\* queueTextForSpeech(text) up to its await: the createAudioFromText calls after it
QueueTextForSpeech(calls, text) ==
    IF Trim(text) = "" \/ Trim(sanitizeTextForTTS(text)) = "" THEN calls
    ELSE Append(calls, [text |-> sanitizeTextForTTS(text), state |-> "pending"])

\* handleAutoSpeech(isComplete, fullText): the sentence it queues in stream mode, "" if none
StreamSentence(newText) ==
    LET end == FirstPunct(newText, 1)
        sentence == Trim(SubSeq(newText, 1, end))
    IN  IF end > 10 /\ Len(sanitizeTextForTTS(sentence)) > 5 THEN sentence ELSE ""

\* handleAutoSpeech(isComplete, fullText)
HandleAutoSpeech(isComplete, fullText) ==
    LET newText == SubSeq(fullText, Len(spokenText) + 1, Len(fullText))
    IN  IF ~speechOn \/ Trim(fullText) = "" THEN
            UNCHANGED <<speechCalls, spokenText, resetTimer>>
        ELSE IF isComplete THEN
            /\ speechCalls' = IF Trim(newText) # "" THEN QueueTextForSpeech(speechCalls, newText) ELSE speechCalls
            /\ spokenText' = IF Trim(newText) # "" THEN fullText ELSE spokenText
            /\ resetTimer' = TRUE
        ELSE
            /\ speechCalls' = IF StreamSentence(newText) # ""
                              THEN QueueTextForSpeech(speechCalls, StreamSentence(newText))
                              ELSE speechCalls
            /\ spokenText' = IF StreamSentence(newText) # ""
                             THEN spokenText \o SubSeq(newText, 1, WhiteRun(newText, FirstPunct(newText, 1)))
                             ELSE spokenText
            /\ UNCHANGED resetTimer

\* the onChunk callback of handleSendMessage
OnChunk(chunk, isComplete) ==
    /\ completeText' = completeText \o chunk
    /\ messageContent' = completeText \o chunk
    /\ IF Trim(completeText \o chunk) # ""
       THEN HandleAutoSpeech(isComplete, completeText \o chunk)
       ELSE UNCHANGED <<speechCalls, spokenText, resetTimer>>

\* the finally block of handleSendMessage
Settled ==
    /\ sendPhase' = "settled"
    /\ isLoading' = FALSE
    /\ aborted' = FALSE

ChatInit ==
    /\ sendPhase = "idle"
    /\ isLoading = FALSE
    /\ aborted = FALSE
    /\ messageContent = ""
    /\ completeText = ""
    /\ deltaCount = 0
    /\ speechOn = TRUE
    /\ spokenText = ""
    /\ resetTimer = FALSE
    /\ directSpeech = ""
    /\ speechCalls = <<>>
    /\ audioQueue = <<>>
    /\ isPlaying = FALSE
    /\ audioCurrent = 0
    /\ played = <<>>
    /\ stopMark = -1

OtherThanChat == <<ragVars, predVars, goalVars, genVars, trendVars, ttsVars>>

\* no request is pending and the speech of the last one is over
Quiet ==
    /\ sendPhase # "pending"
    /\ \A i \in 1..Len(speechCalls) : speechCalls[i].state # "pending"
    /\ audioQueue = <<>>
    /\ ~isPlaying

\* handleSendMessage with a message to send, up to its await (with data) or to its end
\* (without data); a message is sent when the chat is quiet
HandleSendMessage(hasData, speechEnabled) ==
    /\ Quiet
    /\ speechCalls' = <<>>
    /\ played' = <<>>
    /\ speechOn' = speechEnabled
    /\ spokenText' = ""
    /\ completeText' = ""
    /\ deltaCount' = 0
    /\ stopMark' = -1
    /\ IF hasData
       THEN /\ sendPhase' = "pending"
            /\ isLoading' = TRUE
            /\ aborted' = FALSE
            /\ messageContent' = ""
            /\ directSpeech' = ""
       ELSE /\ Settled
            /\ messageContent' = NoCsvReply
            /\ directSpeech' = IF speechEnabled THEN NoCsvReply ELSE ""
    /\ UNCHANGED <<resetTimer, audioQueue, isPlaying, audioCurrent>>
    /\ UNCHANGED OtherThanChat

\* generateRAGResponseStream hands a delta to onChunk
ChunkArrives(content) ==
    /\ sendPhase = "pending" /\ ~aborted
    /\ deltaCount < MaxDeltas
    /\ deltaCount' = deltaCount + 1
    /\ OnChunk(content, FALSE)
    /\ UNCHANGED <<sendPhase, isLoading, aborted, speechOn, directSpeech, audioQueue,
                   isPlaying, audioCurrent, played, stopMark>>
    /\ UNCHANGED OtherThanChat

\* generateRAGResponseStream completes: its onChunk(text, true) and its return, then the
\* finally block of handleSendMessage
Completes(text) ==
    /\ OnChunk(text, TRUE)
    /\ Settled
    /\ UNCHANGED <<deltaCount, speechOn, directSpeech, audioQueue, isPlaying, audioCurrent,
                   played, stopMark>>
    /\ UNCHANGED OtherThanChat

\* the stream ends by "[DONE]" or by the end of the body
StreamCompletes ==
    /\ sendPhase = "pending" /\ ~aborted
    /\ Completes("")

\* the reply for a missing key or for no relevant data, given before any request
DirectReply(text) ==
    /\ sendPhase = "pending" /\ ~aborted /\ completeText = ""
    /\ Completes(text)

\* the fetch or a read rejects, by an error or by the abort of the signal: the catch of
\* generateRAGResponseStream hands the connection-error text to onChunk and returns
StreamRejects ==
    /\ sendPhase = "pending"
    /\ Completes(TroubleReply)

\* handleStopGeneration
HandleStopGeneration ==
    /\ aborted' = (sendPhase = "pending")
    /\ stopMark' = IF sendPhase = "pending" /\ stopMark = -1 THEN Len(speechCalls) ELSE stopMark
    /\ audioCurrent' = 0
    /\ audioQueue' = <<>>
    /\ isPlaying' = FALSE
    /\ spokenText' = ""
    /\ UNCHANGED <<sendPhase, isLoading, messageContent, completeText, deltaCount, speechOn,
                   resetTimer, directSpeech, speechCalls, played>>
    /\ UNCHANGED OtherThanChat

\* the timer of handleAutoSpeech fires
SpokenTextReset ==
    /\ resetTimer
    /\ resetTimer' = FALSE
    /\ spokenText' = ""
    /\ UNCHANGED <<chatVars, directSpeech, speechCalls, audioQueue, isPlaying, audioCurrent, played, stopMark>>
    /\ UNCHANGED OtherThanChat

\* playNextInQueue()
PlayNextInQueue(queue) ==
    IF queue = <<>> THEN
        /\ isPlaying' = FALSE
        /\ audioQueue' = queue
        /\ UNCHANGED <<audioCurrent, played>>
    ELSE
        /\ audioQueue' = Tail(queue)
        /\ isPlaying' = TRUE
        /\ audioCurrent' = Head(queue)
        /\ played' = Append(played, Head(queue))

\* queueTextForSpeech after its await: createAudioFromText(i) returns an audio element
AudioCreated(i) ==
    /\ speechCalls[i].state = "pending"
    /\ speechCalls' = [speechCalls EXCEPT ![i].state = "created"]
    /\ IF ~isPlaying
       THEN PlayNextInQueue(Append(audioQueue, i))
       ELSE audioQueue' = Append(audioQueue, i) /\ UNCHANGED <<isPlaying, audioCurrent, played>>
    /\ UNCHANGED <<chatVars, spokenText, resetTimer, directSpeech, stopMark>>
    /\ UNCHANGED OtherThanChat

\* queueTextForSpeech after its await: createAudioFromText(i) throws, and the error is logged
AudioFails(i) ==
    /\ speechCalls[i].state = "pending"
    /\ speechCalls' = [speechCalls EXCEPT ![i].state = "failed"]
    /\ UNCHANGED <<chatVars, spokenText, resetTimer, directSpeech, audioQueue, isPlaying,
                   audioCurrent, played, stopMark>>
    /\ UNCHANGED OtherThanChat

\* audio.onended (or audio.onerror) of the element that is playing
AudioEnded ==
    /\ isPlaying /\ audioCurrent # 0
    /\ PlayNextInQueue(audioQueue)
    /\ UNCHANGED <<chatVars, spokenText, resetTimer, directSpeech, speechCalls, stopMark>>
    /\ UNCHANGED OtherThanChat

DoHandleSendMessage == \E hasData \in BOOLEAN, speechEnabled \in BOOLEAN : HandleSendMessage(hasData, speechEnabled)
DoChunkArrives == \E content \in CoachDeltas : ChunkArrives(content)
DoDirectReply == \E text \in DirectReplies : DirectReply(text)
DoAudioCreated == \E i \in 1..Len(speechCalls) : AudioCreated(i)
DoAudioFails == \E i \in 1..Len(speechCalls) : AudioFails(i)

ChatNext ==
    \/ DoHandleSendMessage
    \/ DoChunkArrives
    \/ StreamCompletes
    \/ DoDirectReply
    \/ StreamRejects
    \/ HandleStopGeneration
    \/ SpokenTextReset
    \/ DoAudioCreated
    \/ DoAudioFails
    \/ AudioEnded

CoachInit == TtsInit /\ ChatInit

(***************************************************************************)
(* Goals component: saveGoals, which writes the key GoalSetting reads      *)
(***************************************************************************)

\* the ids of the goals the component suggests
SmartGoalIds == <<"recovery", "sleep">>

\* smartGoals with the goals of the given positions enabled
SmartGoals(enabled) == [i \in 1..Len(SmartGoalIds) |-> [id |-> SmartGoalIds[i], enabled |-> i \in enabled]]

IsEnabled(goal) == goal.enabled

\* getActiveGoals() of the component
GoalsGetActiveGoals(smartGoals) == SelectSeq(smartGoals, IsEnabled)

\* saveGoals(): the object { goals, plan, createdAt } is written under 'whoopai_goals'
SaveGoals(smartGoals) ==
    /\ storedGoals' = GoalsGetActiveGoals(smartGoals)
    /\ storedKind' = "object"
    /\ UNCHANGED <<goalData, goals, goalsKind, goalCall>>
    /\ UNCHANGED <<ragVars, predVars, genVars, trendVars, coachVars>>

DoSaveGoals == \E enabled \in SUBSET (1..Len(SmartGoalIds)) : SaveGoals(SmartGoals(enabled))

StoreCreateGoal == \E type \in {"recovery", "strain"} : CreateGoal(type, 900)

StoreNext ==
    \/ ConcNewGoalSetting
    \/ StoreCreateGoal
    \/ UpdateAllGoals
    \/ DoSaveGoals

Init == RagInit /\ PredInit /\ GoalInit /\ GenInit /\ TrendInit /\ CoachInit

Next == RagNext

\* the RAG service: builds, retrievals and context generations in any order
Spec == Init /\ [][Next]_vars

\* a PredictiveAnalytics over any table, and its forecasts
SpecPred == Init /\ [][PredNext]_vars

\* a GoalSetting over any rows: goals created and updated in any order
SpecGoal == Init /\ [][GoalNext]_vars

\* a Goals component over any table, and the trends it computes
SpecTrend == Init /\ [][TrendNext]_vars

\* the three services side by side: their calls in any interleaving
SpecConc == Init /\ [][ConcNext]_vars

\* a RAG service with or without a key: builds and generation calls, one call at a time
SpecGen == Init /\ [][GenNext]_vars

(***************************************************************************)
\* one createAudioFromText call at a time, with any outcome of each request
SpecTts == Init /\ [][TtsNext]_vars

\* the coach's chat: requests one at a time, their chunks, stops, and the speech queue
SpecChat == Init /\ [][ChatNext]_vars

\* a GoalSetting and the Goals component over one localStorage
SpecStore == Init /\ [][StoreNext]_vars

(* Claims about the RAG service (checked under Spec)                       *)
(***************************************************************************)
Retrieved == ragCall \in {"retrieve", "context"}

\* the score retrieveRelevantData gives a fact for a query
ScoreFor(dataPoint, query) ==
    LET queryLower == ToLowerCase(query)
    IN Score(dataPoint, queryLower, expandQuery(queryLower), IsTemporalQuery(queryLower))

\* C1: a retrieval returns at most maxResults facts, and the scores of the
\* returned facts never increase from one returned fact to the next.
C1_AtMostMaxResultsSorted ==
    Retrieved =>
        /\ Len(relevantData) <= lastMaxResults
        /\ \A i \in 1..(Len(relevantData) - 1) :
              ScoreFor(relevantData[i], lastQuery) >= ScoreFor(relevantData[i + 1], lastQuery)

\* C1 witness: a retrieval that cut the ranked facts down to maxResults >= 2
\* facts, with a strict drop of the score inside the result, from a knowledge
\* base that holds a lower-scored fact before a higher-scored one.
C1_Witness ==
    /\ ragCall = "retrieve"
    /\ lastMaxResults >= 2
    /\ Len(relevantData) = lastMaxResults
    /\ Len(scoredData) > lastMaxResults
    /\ \E i \in 1..(Len(relevantData) - 1) :
          ScoreFor(relevantData[i], lastQuery) > ScoreFor(relevantData[i + 1], lastQuery)
    /\ \E i \in 1..(Len(knowledgeBase) - 1) :
          ScoreFor(knowledgeBase[i], lastQuery) < ScoreFor(knowledgeBase[i + 1], lastQuery)

IsTracking(dataPoint) == dataPoint.source = "sleep_debt_tracking"
IsOtherSource(dataPoint) == dataPoint.source \notin {"sleep_debt_tracking", "sleep_debt_analysis"}

\* C2: for the query "sleep debt", every sleep_debt_tracking fact scores
\* strictly higher than, and is ranked before, every fact whose source is
\* neither sleep_debt_tracking nor sleep_debt_analysis.
C2_TrackingAboveOthers ==
    (Retrieved /\ lastQuery = "sleep debt") =>
        /\ \A i, j \in 1..Len(knowledgeBase) :
              (IsTracking(knowledgeBase[i]) /\ IsOtherSource(knowledgeBase[j]))
                  => ScoreFor(knowledgeBase[i], lastQuery) > ScoreFor(knowledgeBase[j], lastQuery)
        /\ \A i, j \in 1..Len(scoredData) :
              (IsTracking(scoredData[i].dataPoint) /\ IsOtherSource(scoredData[j].dataPoint))
                  => i < j

\* the date values of the rows handed to the last build
RowDates == {ValToString(Get(csvData[i], "date")) : i \in {j \in 1..Len(csvData) : Truthy(Get(csvData[j], "date"))}}

\* C5: no fact content, and no rendered summary, contains the literal date
\* value of a row.
C5_NoLiteralDates ==
    \A d \in RowDates :
        /\ \A i \in 1..Len(knowledgeBase) : ~Includes(knowledgeBase[i].content, d)
        /\ ~Includes(summary, d)

\* the renderings "{H}h {M}m" of m tenths of a minute with H = floor(m / 60) and M in 0..59
GoodDurations(m) == {ToString(FloorDiv(m, 600)) \o "h " \o ToString(M) \o "m" : M \in 0..59}

\* the facts built from field f of the row at 0-based index
FactsOfField(index, row, f) ==
    {i \in 1..Len(knowledgeBase) :
        /\ knowledgeBase[i].recency = index
        /\ knowledgeBase[i].metric = f.key
        /\ knowledgeBase[i].source = RowSource(row)}

\* C6: the fact of a duration-like field whose value parses as m minutes
\* renders the value as "{H}h {M}m" with H = floor(m / 60) and 0 <= M <= 59.
C6_DurationRendering ==
    \A r \in 1..Len(csvData) : \A c \in 1..Len(csvData[r]) :
        LET f == csvData[r][c]
        IN (KeepsField(f) /\ IsDurationKey(ToLowerCase(f.key)) /\ ~IsNaN(ParseFloat(f.val)))
              => \A i \in FactsOfField(r - 1, csvData[r], f) :
                    knowledgeBase[i].value \in GoodDurations(ParseFloat(f.val).n)

\* C7: after any sequence of builds the knowledge base is the one a fresh
\* service builds from the rows and snapshots of the last call alone.
C7_BuildReplaces == knowledgeBase = BuiltKnowledgeBase(<<>>, csvData, dynamicMetrics)

\* C7 witness: a build over a non-empty knowledge base that again left a
\* non-empty knowledge base.
C7_Witness == ragCall = "rebuild" /\ knowledgeBase # <<>>

(***************************************************************************)
(* Claims about GoalSetting (checked under SpecGoal)                       *)
(***************************************************************************)
\* the goals the last call passed through updateGoalProgress
UpdatedIndexes ==
    CASE goalCall = "create" -> {Len(goals)}
      [] goalCall = "updateAll" -> {i \in 1..Len(goals) : goals[i].isActive}
      [] OTHER -> {}

\* the progress p is the number k
ProgressIs(p, k) == p.t = "num" /\ p.n = k * p.d

\* the goal is lower-is-better
LowerIsBetter(goal) == goal.type = "strain"

\* the division of updateGoalProgress has a zero divisor
ZeroDivisor(goal) ==
    IF LowerIsBetter(goal) THEN goal.targetValue = getBaselineValue(goal.type)
    ELSE goal.targetValue = 0

\* the current value has reached the target in the improving direction
ReachedTarget(goal) ==
    IF LowerIsBetter(goal) THEN goal.currentValue <= goal.targetValue
    ELSE goal.currentValue >= goal.targetValue

\* C3: after updateGoalProgress the progress of the goal is a number in
\* [0, 100]; where the division has a zero divisor it is 100 if the current
\* value has reached the target and 0 otherwise.
C3_ProgressInRange ==
    \A i \in UpdatedIndexes :
        LET goal == goals[i]
        IN /\ goal.progress.t = "num"
           /\ 0 <= goal.progress.n
           /\ goal.progress.n <= 100 * goal.progress.d
           /\ ZeroDivisor(goal) =>
                 ProgressIs(goal.progress, IF ReachedTarget(goal) THEN 100 ELSE 0)

\* C4: a lower-is-better goal with a target below its baseline has progress
\* 100 when the current value equals the target, 0 when it equals the
\* baseline and 50 when it is midway between the two.
C4_LowerIsBetterProgress ==
    \A i \in UpdatedIndexes :
        LET goal == goals[i]
            baseline == getBaselineValue(goal.type)
        IN (LowerIsBetter(goal) /\ goal.targetValue < baseline) =>
              /\ goal.currentValue = goal.targetValue => ProgressIs(goal.progress, 100)
              /\ goal.currentValue = baseline => ProgressIs(goal.progress, 0)
              /\ 2 * goal.currentValue = goal.targetValue + baseline
                    => ProgressIs(goal.progress, 50)

(***************************************************************************)
(* Claims about PredictiveAnalytics (checked under SpecPred)               *)
(***************************************************************************)
Generated == predCall = "generate"

\* the forecast is the insufficient-data placeholder
IsPlaceholder(p) == p.prediction = 0 /\ p.confidence = 0 /\ p.recommendations = <<>>

\* the forecast is a computed one: a confidence of at least 0.5 and some recommendations
IsComputed(p) == 2 * p.confidence >= ConfidenceDen /\ p.recommendations # <<>>

\* the number of values of a metric that parse
Parsable(metricName) == Len(getMetricData(history, metricName))

\* C8: every returned prediction has a confidence above 0.6 and at most
\* 0.95, and no prediction with a confidence of at most 0.6 is returned.
C8_ReturnedConfident ==
    Generated =>
        /\ \A i \in 1..Len(returned) :
              /\ 10 * returned[i].confidence > 6 * ConfidenceDen
              /\ 100 * returned[i].confidence <= 95 * ConfidenceDen
        /\ \A j \in 1..Len(predictions) :
              10 * predictions[j].confidence <= 6 * ConfidenceDen
                  => \A i \in 1..Len(returned) : returned[i] # predictions[j]

\* C8 witness: a generatePredictions that returned a forecast and left out
\* both a placeholder and a computed forecast of low confidence.
C8_Witness ==
    /\ Generated
    /\ returned # <<>>
    /\ \E j \in 1..Len(predictions) : IsPlaceholder(predictions[j])
    /\ \E j \in 1..Len(predictions) :
          /\ IsComputed(predictions[j])
          /\ 10 * predictions[j].confidence <= 6 * ConfidenceDen

\* C9: each forecast is the placeholder exactly when its minimum sample
\* size is not met, and a computed prediction otherwise.
C9_PlaceholderIffTooFewSamples ==
    Generated =>
        /\ IsPlaceholder(predictions[1]) <=> Parsable("recovery score %") < 7
        /\ IsPlaceholder(predictions[2]) <=>
              (Parsable("sleep need (min)") < 5 \/ Parsable("asleep duration (min)") < 5)
        /\ IsPlaceholder(predictions[3]) <=> Parsable("recovery score %") < 5
        /\ IsPlaceholder(predictions[4]) <=>
              (Parsable("recovery score %") < 7 \/ Parsable("day strain") < 7)
        /\ \A j \in 1..4 : IsPlaceholder(predictions[j]) \/ IsComputed(predictions[j])

\* C9 witness: a table of 7 or more rows with fewer than 7 parsable recovery
\* values: the recovery forecast is the placeholder, the readiness forecast
\* is computed.
C9_Witness ==
    /\ Generated
    /\ Len(history) >= 7
    /\ IsPlaceholder(predictions[1])
    /\ IsComputed(predictions[3])
    /\ IsComputed(predictions[2])

\* the domain of the predicted value of a forecast type
InDomain(p) ==
    CASE p.type = "recovery" -> p.prediction \in 10..100
      [] p.type = "performance" -> p.prediction \in 0..100
      [] p.type = "injury_risk" -> p.prediction \in 0..100
      [] OTHER -> p.prediction \in Int

\* C10: a forecast whose sample-size precondition holds has a predicted
\* value inside its domain and a confidence that is a number in [0.5, 0.95].
C10_ComputedInDomain ==
    Generated =>
        \A j \in 1..4 :
            ~IsPlaceholder(predictions[j]) =>
                /\ InDomain(predictions[j])
                /\ predictions[j].confidence \in Int
                /\ 2 * predictions[j].confidence >= ConfidenceDen
                /\ 100 * predictions[j].confidence <= 95 * ConfidenceDen

\* C10 witness: computed recovery and readiness forecasts from a table with
\* no strain, no sleep performance and no HRV values: the recovery forecast
\* is computed, the readiness forecast at the top of its domain.
C10_Witness ==
    /\ Generated
    /\ Parsable("day strain") = 0
    /\ Parsable("sleep performance %") = 0
    /\ Parsable("heart rate variability (ms)") = 0
    /\ IsComputed(predictions[1])
    /\ IsComputed(predictions[3])
    /\ predictions[3].prediction = 100

\* the parsable values of a metric of the table
Series(metricName) == getMetricData(history, metricName)

\* the sum of the 2 most recent values of a series (of the only one, if it has one)
FirstTwo(series) == IF Len(series) >= 2 THEN series[1] + series[2] ELSE series[1]

\* the preconditions of C11: at least 7 recovery values, all equal to some c
\* in 10 .. 100, and means of the 2 most recent strain and sleep performance
\* values (as the forecast computes them) within [8, 12] and [70, 85]
ConstantRecovery ==
    LET recoveryData == Series("recovery score %")
        strainData == Series("day strain")
        sleepData == Series("sleep performance %")
    IN /\ Len(recoveryData) >= 7
       /\ \A i \in 1..Len(recoveryData) : recoveryData[i] = recoveryData[1]
       /\ recoveryData[1] >= 100 /\ recoveryData[1] <= 1000
       /\ Len(strainData) > 0 /\ Len(sleepData) > 0
       /\ FirstTwo(strainData) >= 160 /\ FirstTwo(strainData) <= 240
       /\ FirstTwo(sleepData) >= 1400 /\ FirstTwo(sleepData) <= 1700

\* C11 as stated: under these preconditions the recovery forecast predicts
\* exactly c, with a confidence within [0.5, 0.95].
C11_PredictsExactlyC ==
    (Generated /\ ConstantRecovery) =>
        /\ 10 * predictions[1].prediction = Series("recovery score %")[1]
        /\ 2 * predictions[1].confidence >= ConfidenceDen
        /\ 100 * predictions[1].confidence <= 95 * ConfidenceDen

\* C11 amended: under these preconditions the recovery forecast predicts c
\* rounded to the nearest integer (c itself when c is an integer), with a
\* confidence within [0.5, 0.95].
C11_PredictsRoundedC ==
    (Generated /\ ConstantRecovery) =>
        /\ predictions[1].prediction = RoundFrac(Series("recovery score %")[1], 10)
        /\ 2 * predictions[1].confidence >= ConfidenceDen
        /\ 100 * predictions[1].confidence <= 95 * ConfidenceDen

\* C11 witness: a forecast from more than 7 rows of recovery constantly 60,
\* strain 10 and sleep performance 80 that predicts 60.
C11_Witness ==
    /\ Generated /\ ConstantRecovery
    /\ Len(history) > 7
    /\ Series("recovery score %")[1] = 600
    /\ FirstTwo(Series("day strain")) = 200
    /\ FirstTwo(Series("sleep performance %")) = 1600
    /\ predictions[1].prediction = 60

\* the preconditions of C12: 7 days of data with a recovery and a strain
\* value each, no day with strain > 14 together with recovery < 50, a
\* constant strain (a day strain is not negative) and no HRV value
CalmWeek ==
    /\ Len(history) = 7
    /\ Len(Series("recovery score %")) = 7
    /\ Len(Series("day strain")) = 7
    /\ Len(Series("heart rate variability (ms)")) = 0
    /\ \A i \in 1..7 : ~(Series("day strain")[i] > 140 /\ Series("recovery score %")[i] < 500)
    /\ \A i \in 1..7 : Series("day strain")[i] = Series("day strain")[1]
    /\ Series("day strain")[1] >= 0

\* C12: for such a week the injury-risk forecast is 0, in the 'Low injury
\* risk' tier, with 0 consecutive high-risk days and the confidence 0.5.
C12_CalmWeekLowRisk ==
    (Generated /\ CalmWeek) =>
        /\ predictions[4].prediction = 0
        /\ predictions[4].recommendations[1] = "Low injury risk"
        /\ SubSeq(predictions[4].reasoning, 1, 28) = "0 consecutive high-risk days"
        /\ 2 * predictions[4].confidence = ConfidenceDen

\* C12 witness: such a week in which every day has a recovery below 50 (with
\* a strain of at most 14), forecast as 0.
C12_Witness ==
    /\ Generated /\ CalmWeek
    /\ \A i \in 1..7 : Series("recovery score %")[i] < 500
    /\ predictions[4].type = "injury_risk"
    /\ predictions[4].prediction = 0


\* the data of the last generatePredictions call had 8 or fewer rows
AtMostEightRows == predCall = "generate" /\ Len(history) <= 8

\* C30: generatePredictions returns an empty list whenever the data has 8 or fewer rows,
\* whatever the values: no forecast's confidence exceeds 0.6, so none is surfaced.
C30_FewRowsNoForecast ==
    AtMostEightRows =>
        /\ returned = <<>>
        /\ \A i \in 1..Len(predictions) : 10 * predictions[i].confidence <= 6 * ConfidenceDen

C30_Witness ==
    /\ AtMostEightRows
    /\ Len(history) = 8
    /\ \E i \in 1..Len(predictions) : 14 * predictions[i].confidence = 8 * ConfidenceDen
    /\ returned = <<>>

(***************************************************************************)
(* Claims about response generation (checked under SpecGen)                *)
(***************************************************************************)
\* the last generation call had a key and a non-casual query, and its retrieval found no fact
NoFactsFound ==
    /\ genCall # "none"
    /\ ragCall = "context" /\ lastQuery = genQuery
    /\ Trim(apiKey) # ""
    /\ ~isCasualConversation(Trim(ToLowerCase(genQuery)))
    /\ relevantData = <<>>

\* C13: with a key set and a non-casual query, a generation call whose retrieval returns no
\* fact sends no request; generateRAGResponse returns the fixed "couldn't find relevant data"
\* reply, and generateRAGResponseStream hands it to onChunk in one call, which completes.
C13_NoFactsNoRequest ==
    NoFactsFound =>
        /\ requests = 0
        /\ genPhase = "done"
        /\ genCall = "response" =>
              /\ reply = NoDataReply
              /\ Includes(reply, "couldn't find relevant data")
              /\ chunks = <<>>
        /\ genCall = "stream" =>
              chunks = <<[chunk |-> NoDataReply, isComplete |-> TRUE]>>

C13_Witness ==
    /\ NoFactsFound
    /\ genCall = "stream"
    /\ knowledgeBase = <<>>
    /\ genQuery = "hydration"
    /\ Len(chunks) = 1

\* the positions of the onChunk calls of the last stream call that had isComplete = true
CompletingCalls == {i \in 1..Len(chunks) : chunks[i].isComplete}

\* the last call was generateRAGResponseStream and it has returned
StreamReturned == genCall = "stream" /\ genPhase = "done"

\* C26: every call of generateRAGResponseStream (missing key, casual reply, no relevant
\* data, stream ended by "[DONE]" or by the end of the body, request error or abort)
\* invokes onChunk with isComplete = true exactly once, and that invocation is its last.
C26_CompletesExactlyOnce ==
    genCall = "stream" =>
        /\ Cardinality(CompletingCalls) <= 1
        /\ \A i \in CompletingCalls : i = Len(chunks)
        /\ StreamReturned <=> CompletingCalls # {}

C26_Witness ==
    /\ StreamReturned
    /\ requests = 1
    /\ Len(chunks) = MaxChunks + 1
    /\ ~chunks[1].isComplete
    /\ chunks[Len(chunks)] = Chunk("", TRUE)

(***************************************************************************)
(* Claims about interleaved calls (checked under SpecConc)                 *)
(***************************************************************************)
\* the step is a retrieveRelevantData call
RetrieveStep == ragCall' = "retrieve" /\ ragVars' # ragVars

\* the step is a generatePredictions call
PredictStep == predCall' = "generate" /\ predVars' # predVars

\* the step is an updateAllGoals call: updateGoalProgress on every active goal
UpdateStep == goalCall' = "updateAll" /\ goalVars' # goalVars

PriorityBonus(dataPoint) ==
    RecencyBoost(dataPoint.source, dataPoint.recency)
        + TemporalBoost(IsTemporalQuery(ToLowerCase(lastQuery)), dataPoint.recency)

\* what the words of the last query add to a fact
KeywordScoreOf(dataPoint) ==
    KeywordScore(ToLowerCase(dataPoint.content), ToLowerCase(dataPoint.metric),
                 expandQuery(ToLowerCase(lastQuery)))

\* C15: a current_metrics fact (recency -1) gets a priority bonus at least as large as that
\* of any fact with recency >= 0, so with an equal keyword score it is never ranked below a
\* dated fact, also under a temporal query.
C15_CurrentMetricsOnTop ==
    Retrieved =>
        \A i, j \in 1..Len(scoredData) :
            (scoredData[i].dataPoint.source = "current_metrics" /\ scoredData[j].dataPoint.recency >= 0) =>
                /\ PriorityBonus(scoredData[i].dataPoint) >= PriorityBonus(scoredData[j].dataPoint)
                /\ j < i => KeywordScoreOf(scoredData[i].dataPoint) # KeywordScoreOf(scoredData[j].dataPoint)

\* no expanded term of the last query occurs in the content or the metric of any fact, and the
\* query holds neither 'sleep debt' nor a temporal phrase
MatchesNothing ==
    /\ \A i \in 1..Len(knowledgeBase) : KeywordScoreOf(knowledgeBase[i]) = 0
    /\ ~Includes(ToLowerCase(lastQuery), "sleep debt")
    /\ ~IsTemporalQuery(ToLowerCase(lastQuery))

\* C17: a query that matches no term of any fact and holds neither 'sleep debt' nor a temporal
\* phrase retrieves an empty list from every knowledge base.
C17_NoMatchNoFacts ==
    (Retrieved /\ MatchesNothing) => relevantData = <<>>

(***************************************************************************)
(* Claims about the Goals component (checked under SpecTrend)              *)
(***************************************************************************)
\* a trend was computed over a table that has a week before the most recent one
TrendComputed == trendKey # "" /\ Len(trendData) >= 14

\* the average of the last trend's metric over the most recent 7 days
RecentAverage == AverageOf(PositiveValues(SubSeq(trendData, 1, 7), trendKey, 1))

\* the average of the same metric over the 7 days before them
OlderAverage == AverageOf(PositiveValues(SubSeq(trendData, 8, 14), trendKey, 1))

\* C16: the trend compares the metric's average over the most recent 7 days with its average
\* over an older window: it is 'stable' when the two differ by less than 2, and for a
\* higher-is-better metric 'declining' when the recent average is lower by 2 or more.
C16_TrendComparesWindows ==
    TrendComputed =>
        /\ DiffersLessThan2(RecentAverage, OlderAverage) => trend = "stable"
        /\ (/\ isHigherBetter(trendKey)
            /\ ~DiffersLessThan2(RecentAverage, OlderAverage)
            /\ AvgLess(RecentAverage, OlderAverage)) => trend = "declining"

(***************************************************************************)
(* Further claims about the forecasts (checked under SpecPred)             *)
(***************************************************************************)
\* the days the injury-risk scan covers, as 1-based positions in the two series
ScannedDays == 1..Min2(7, Min2(Len(Series("recovery score %")), Len(Series("day strain"))))

\* the scanned days of high strain with low recovery
RiskDays == {i \in ScannedDays : Series("day strain")[i] > 140 /\ Series("recovery score %")[i] < 500}

\* three or more consecutive risk days occur somewhere in the scanned window
RunOfThree == \E i \in ScannedDays : {i, i + 1, i + 2} \subseteq RiskDays

\* an injury-risk forecast was computed from series without an HRV trend
RiskScanned ==
    /\ Generated
    /\ Len(Series("recovery score %")) >= 7 /\ Len(Series("day strain")) >= 7
    /\ Len(Series("heart rate variability (ms)")) < 7

\* C18: each risk day adds 15 and no day lowers the score, and the +25 bonus is added once
\* whenever a run of 3 or more consecutive risk days occurs anywhere in the scanned window,
\* also when later days break the run (the strain spike adds its 15; the score is capped).
C18_RunBonusAnywhere ==
    RiskScanned =>
        predictions[4].prediction =
            Min2(100, 15 * Cardinality(RiskDays)
                        + (IF RunOfThree THEN 25 ELSE 0)
                        + (IF 70 * SumFirst(Series("day strain"), 3) > 39 * SumFirst(Series("day strain"), 7)
                           THEN 15 ELSE 0))

RECURSIVE MetricRowsFrom(_, _, _)
\* the rows (1-based) whose value getMetricData(metricName) keeps, in order, from row i on
MetricRowsFrom(data, metricName, i) ==
    IF i > Len(data) THEN <<>>
    ELSE (IF IsNaN(ParseFloat(Get(data[i], metricName))) THEN <<>> ELSE <<i>>)
            \o MetricRowsFrom(data, metricName, i + 1)

\* the row the k-th value of a series was read from
RowsOf(metricName) == MetricRowsFrom(history, metricName, 1)

\* the first `days` values of two series are read from the same rows
SameRows(metricA, metricB, days) ==
    \A k \in 1..Min2(days, Min2(Len(RowsOf(metricA)), Len(RowsOf(metricB)))) :
        RowsOf(metricA)[k] = RowsOf(metricB)[k]

\* C19: every (recovery, strain) pair of the injury-risk scan and every (sleep need, asleep
\* duration) pair of a daily deficit is taken from one row: a row where one of the two
\* values is missing or unparsable does not shift the later values onto other days.
C19_PairsFromOneRow ==
    Generated =>
        /\ IsComputed(predictions[4]) => SameRows("recovery score %", "day strain", 7)
        /\ IsComputed(predictions[2]) => SameRows("sleep need (min)", "asleep duration (min)", 7)

\* a recent-first series put in the order of time, oldest value first
OldestFirst(series) == [i \in 1..Len(series) |-> series[Len(series) + 1 - i]]

\* the sign of the least-squares slope of the k most recent HRV values over time
HrvSlopeOverTime(k) ==
    calculateTrend(OldestFirst(Slice0(Series("heart rate variability (ms)"), k)))[1]

\* the readiness and the injury risk the forecasts give without any HRV value
ReadinessWithoutHrv ==
    PerformanceReadinessFrom(Series("recovery score %"), <<>>, Series("day strain")).prediction

InjuryRiskWithoutHrv ==
    InjuryRiskFrom(Series("recovery score %"), Series("day strain"), <<>>).prediction

\* C20: the HRV slope is taken over a series ordered from oldest to newest: readiness gains 5
\* only when HRV has been rising over time and loses 5 only when it has been falling, and
\* injury risk gains 20 only when HRV has been falling over time.
C20_HrvSlopeOverTime ==
    Generated =>
        /\ (IsComputed(predictions[3]) /\ Len(Series("heart rate variability (ms)")) >= 5) =>
              /\ predictions[3].prediction > ReadinessWithoutHrv => HrvSlopeOverTime(5) > 0
              /\ predictions[3].prediction < ReadinessWithoutHrv => HrvSlopeOverTime(5) < 0
        /\ (IsComputed(predictions[4]) /\ Len(Series("heart rate variability (ms)")) >= 7) =>
              (predictions[4].prediction > InjuryRiskWithoutHrv => HrvSlopeOverTime(7) < 0)

(***************************************************************************)
(* Claims about the confidence and the sleep-debt forecast (SpecPred)      *)
(***************************************************************************)
\* the coefficient of variation of a non-empty series, standard deviation / mean, exceeds
\* 0.3: with n values of sum s and sum of squares q the variance exceeds 0.09 mean^2
HighCv(series) ==
    LET n == Len(series)
        s == SumSeq(series, 1)
        q == SumSeq([i \in 1..n |-> series[i] * series[i]], 1)
        dev == n * q - s * s
    IN IF s > 0 THEN 100 * dev > 9 * s * s
       ELSE IF s = 0 THEN dev > 0
       ELSE FALSE

RECURSIVE ReduceByCv(_, _, _)
\* confidence times 0.8 for every series with more than 3 values whose 7 most recent values
\* have a coefficient of variation above 0.3
ReduceByCv(datasets, i, confidence) ==
    IF i > Len(datasets) THEN confidence
    ELSE ReduceByCv(datasets, i + 1,
             IF Len(datasets[i]) > 3 /\ HighCv(Slice0(datasets[i], 7))
             THEN (confidence * 4) \div 5
             ELSE confidence)

\* the confidence C21 describes for the series of a forecast, times ConfidenceDen
ConfidenceByCv(datasets) ==
    LET totalDataPoints == SumSeq([i \in 1..Len(datasets) |-> Len(datasets[i])], 1)
        base == Min2((9 * ConfidenceDen) \div 10, (totalDataPoints * ConfidenceDen) \div (14 * Len(datasets)))
    IN Max2(ConfidenceDen \div 2, Min2((95 * ConfidenceDen) \div 100, ReduceByCv(datasets, 1, base)))

\* C21: the confidence starts from min(0.9, mean sample count / 14) and is multiplied by 0.8
\* once for each series with more than 3 points exactly when the coefficient of variation
\* (standard deviation / mean) of its 7 most recent values exceeds 0.3; it lies in [0.5, 0.95].
C21_ConfidenceByCv ==
    (Generated /\ IsComputed(predictions[3])) =>
        /\ predictions[3].confidence =
              ConfidenceByCv(<<Series("recovery score %"), Series("heart rate variability (ms)"),
                               Series("day strain")>>)
        /\ 2 * predictions[3].confidence >= ConfidenceDen
        /\ 100 * predictions[3].confidence <= 95 * ConfidenceDen

\* the explicit 'sleep debt (min)' value of the most recent row is present
ExplicitDebt == Len(history) > 0 /\ ~IsNaN(ParseFloat(Get(history[1], "sleep debt (min)")))

\* the sum of the (need - duration) deficits of up to 7 most recent days, as the forecast pairs them
DeficitSum ==
    LET need == Series("sleep need (min)")
        duration == Series("asleep duration (min)")
    IN SumSeq([i \in 1..Min2(7, Min2(Len(need), Len(duration))) |-> need[i] - duration[i]], 1)

\* the text with which the reasoning of a sleep-debt forecast of a current debt starts
CurrentDebtText(debt) == "Current debt: " \o PlusSign(debt) \o ToFixed1(debt, 600) \o "h."

StartsWith(s, prefix) == Len(s) >= Len(prefix) /\ SubSeq(s, 1, Len(prefix)) = prefix

\* C22: the sleep-debt forecast takes as current debt the explicit 'sleep debt (min)' value of
\* the most recent row whenever it is present, an explicit 0 included, and the sum of the
\* deficits of up to 7 most recent days only when no explicit debt value is present.
C22_ExplicitDebtFirst ==
    (Generated /\ IsComputed(predictions[2])) =>
        /\ ExplicitDebt =>
              StartsWith(predictions[2].reasoning,
                         CurrentDebtText(ParseFloat(Get(history[1], "sleep debt (min)")).n))
        /\ Series("sleep debt (min)") = <<>> =>
              StartsWith(predictions[2].reasoning, CurrentDebtText(DeficitSum))

(***************************************************************************)
(* Claims about the facts of the knowledge base (checked under Spec)       *)
(***************************************************************************)
\* the field has a value: not missing, not empty, not blank (a number is a value)
HasValue(f) ==
    /\ f.key # "_source_file"
    /\ f.val.t # "null"
    /\ ~(f.val.t = "str" /\ IsBlank(f.val.s))

RECURSIVE FieldsWithValue(_, _)
\* the fields with a value of the rows from position i on, each with its row index
FieldsWithValue(rows, i) ==
    IF i > Len(rows) THEN <<>>
    ELSE LET kept == SelectSeq(rows[i], HasValue)
         IN [j \in 1..Len(kept) |-> [metric |-> kept[j].key, recency |-> i - 1]]
                \o FieldsWithValue(rows, i + 1)

\* the fact was made from a field of a row
IsRowFact(dataPoint) ==
    dataPoint.source \notin {"current_metrics", "sleep_debt_tracking", "sleep_debt_analysis"}

\* C23: buildKnowledgeBase emits exactly one row-derived fact for every field (other than
\* _source_file) of every row whose value is not empty or blank, with recency equal to the
\* row index and in row order; a numeric 0 is a value and yields a fact.
C23_OneFactPerValue ==
    LET rowFacts == SelectSeq(knowledgeBase, IsRowFact)
    IN ragCall \in {"build", "rebuild"} =>
          [k \in 1..Len(rowFacts) |-> [metric |-> rowFacts[k].metric, recency |-> rowFacts[k].recency]]
              = FieldsWithValue(csvData, 1)

\* the sleep_debt_tracking facts of the knowledge base
TrackingFacts == SelectSeq(knowledgeBase, LAMBDA d : d.source = "sleep_debt_tracking")

\* C24: each of the at most 7 sleep_debt_tracking facts renders its day's debt as signed hours
\* to one decimal: a positive debt with '+', a negative debt (a surplus) with '-'.
C24_SignedDebtHours ==
    /\ Len(TrackingFacts) <= 7
    /\ \A k \in 1..Len(TrackingFacts) :
          LET fact == TrackingFacts[k]
              start == "Sleep debt " \o TimeRef(fact.recency) \o ": "
          IN /\ StartsWith(fact.content, start)
             /\ Char(fact.content, Len(start) + 1) =
                    (IF Char(fact.value, 1) = "-" THEN "-" ELSE "+")

(***************************************************************************)
(* Claims about AICoach.createAudioFromText (checked under SpecTts)        *)
(***************************************************************************)

\* the requests the call has sent so far
RequestsSent == Len(ttsOutcomes) + (IF ttsPending THEN 1 ELSE 0)

\* the i-th request was answered 401 or 422
Rejected(i) == ttsOutcomes[i] \in {"401", "422"}

\* the call failed at request i and sent nothing after it
FailedAt(i) == ttsPhase = "thrown" /\ RequestsSent = i

\* the delays waited so far are 1 s, then 2 s
BackoffOneThenTwo == ttsDelays = SubSeq(<<1000, 2000>>, 1, Len(ttsDelays))

\* C25: createAudioFromText sends at most 3 requests per call; a 401 or 422
\* response makes the call fail at once with no further request; the other
\* failures are retried after a backoff of 1 s and then 2 s.
C25_RejectionFailsAtOnce ==
    /\ RequestsSent <= maxAttempts
    /\ \A i \in 1..Len(ttsOutcomes) : Rejected(i) => FailedAt(i)
    /\ BackoffOneThenTwo
    /\ \A i \in 1..Len(ttsOutcomes) :
           (~Rejected(i) /\ ttsOutcomes[i] # "200" /\ i < maxAttempts) => Len(ttsDelays) >= i

(***************************************************************************)
(* Claims about the coach's chat and speech queue (checked under SpecChat) *)
(***************************************************************************)

\* the last request was stopped while its stream was pending, and has ended
StoppedRequestEnded == stopMark >= 0 /\ sendPhase = "settled"

\* C27: when the user stops an in-flight generation, the coach message of that request ends
\* as "Response generation was stopped.", no connection-error text is added to it, and no
\* text of that response is queued for speech after the stop.
C27_StopLeavesStoppedMessage ==
    StoppedRequestEnded =>
        /\ messageContent = StoppedReply
        /\ ~Includes(messageContent, TroubleReply)
        /\ Len(speechCalls) = stopMark

\* C28: the sentences queued for speech during one streamed response are played in the order
\* in which they were generated, each at most once, whatever the order in which their
\* text-to-speech calls return.
C28_PlayedInOrder ==
    \A a \in 1..Len(played) : \A b \in 1..Len(played) :
        a < b =>
            /\ played[a] # played[b]
            /\ played[a] < played[b]

(***************************************************************************)
(* Claims about the stored goals (checked under SpecStore)                 *)
(***************************************************************************)

\* C29: the value stored under 'whoopai_goals' is, after any sequence of operations of
\* GoalSetting and of the Goals component, a JSON array of goals, so that a GoalSetting
\* constructed at any moment loads an array on which its methods work; after createGoal
\* the stored array equals the in-memory goal list.
C29_StoredIsGoalArray ==
    /\ storedKind # "object"
    /\ goalsKind = "array"
    /\ goalCall # "threw"
    /\ goalCall = "create" => (storedKind = "array" /\ storedGoals = goals)

====
